---- MODULE Spec2Model ----
(***************************************************************************)
(* Quality-gated generation pipeline of qnc-curriculum-studio:             *)
(* the LangGraph orchestration of backend/app/graph/research_graph.py,     *)
(* the evaluators of backend/app/quality and the citation repair of        *)
(* backend/app/graph/technical_compiler.py.                                *)
(*                                                                         *)
(* Texts are modelled by what the code looks at: who produced them, which  *)
(* attempt it was, which [doc-N]/[web-N] markers they carry and whether    *)
(* they meet the structural minimums of the lightweight gates.             *)
(***************************************************************************)
EXTENDS Integers, Sequences, FiniteSets, TLC

VARIABLES settings, node, st, steps, runs, route, triggers, response, rp

vars == <<settings, node, st, steps, runs, route, triggers, response, rp>>

orchVars == <<settings, node, st, steps, runs, route, triggers, response>>

(***************************************************************************)
(* Bounds of the model                                                     *)
(***************************************************************************)
\* most chunks the vector store returns to one run
MaxDocs == 1
\* most raw results the tiered web search returns to one run
MaxWeb == 1
\* supersteps LangGraph allows one invocation (its default recursion limit)
RecursionLimit == 25

Min(a, b) == IF a < b THEN a ELSE b
Max(a, b) == IF a > b THEN a ELSE b

(***************************************************************************)
(* Texts                                                                   *)
(***************************************************************************)
Urls == {"u1"}
Chunks == {"c1"}

\* a marker no research of the graph model assigns
InventedId == <<"doc", MaxDocs + 1>>

\* state.get(key) of a key that was never written
Absent == [by |-> "absent", att |-> 0, cites |-> {}, fmt |-> FALSE]
\* the empty string
EmptyStr == [by |-> "empty", att |-> 0, cites |-> {}, fmt |-> FALSE]

\* Python truthiness of a text: None and "" are falsy
Truthy(c) == c.by \notin {"absent", "empty"}

\* state.get(key, "")
GetStr(c) == IF c.by = "absent" THEN EmptyStr ELSE c

Text(by, att, cites, fmt) == [by |-> by, att |-> att, cites |-> cites, fmt |-> fmt]

\* IDs of a citations list
CitationIds(citations) == {citations[i].id : i \in 1..Len(citations)}

\* what a chat model may answer to a prompt that lists `citations`: nothing,
\* a text that carries every listed marker, or a text that drops them and
\* carries a marker of its own
ModelOutputs(by, att, citations, fmts) ==
    {EmptyStr} \cup
    {Text(by, att, cs, f) :
        cs \in {CitationIds(citations), {InventedId}},
        f \in fmts}

(***************************************************************************)
(* Graph configuration (app.core.config.Settings), fixed at construction   *)
(***************************************************************************)
Cfg(seq, comp, multi, enrich) ==
    [enable_sequential_pipeline |-> seq, enable_technical_compiler |-> comp,
     enable_multi_agent_pipeline |-> multi, enable_narrative_enrichment |-> enrich]

\* one representative per graph shape _build_graph can produce
GraphConfigurations ==
    { Cfg(TRUE, TRUE, FALSE, TRUE),     \* agents 1-2, compiler, agent 4
      Cfg(TRUE, TRUE, FALSE, FALSE),    \* agents 1-2, compiler
      Cfg(TRUE, FALSE, FALSE, FALSE),   \* agents 1-2 only
      Cfg(FALSE, FALSE, TRUE, FALSE),   \* multi-agent narrative pipeline
      Cfg(FALSE, TRUE, FALSE, FALSE),   \* legacy with compiler
      Cfg(FALSE, FALSE, FALSE, TRUE),   \* legacy with enrichment
      Cfg(FALSE, FALSE, FALSE, FALSE) } \* legacy, generation only

compiler_quality_threshold == 95
quality_degradation_tolerance == 5

(***************************************************************************)
(* Evaluation reports                                                      *)
(***************************************************************************)
NoGate == [present |-> FALSE, passed |-> FALSE]

NoEvaluation == [present |-> FALSE, passed |-> FALSE, total_score |-> 0, feedback |-> <<>>]

NoCompilerEvaluation ==
    [present |-> FALSE, technical_preservation |-> 0, psw_structure |-> 0,
     micro_fix_clarity |-> 0, real_world_integration |-> 0, reflective_depth |-> 0,
     total_score |-> 0, passed |-> FALSE, feedback |-> <<>>]

NoNarrativeEvaluation ==
    [present |-> FALSE, technical_preservation |-> 0, complexity_alignment |-> 0,
     scenario_quality |-> 0, aha_moment |-> 0, narrative_flow |-> 0,
     total_score |-> 0, passed |-> FALSE, feedback |-> <<>>]

NoAethelgardEvaluation ==
    [present |-> FALSE, brand_voice |-> 0, keyword_integration |-> 0,
     rag_structure |-> 0, final_quality |-> 0, uniqueness |-> 0,
     total_score |-> 0, passed |-> FALSE, feedback |-> <<>>]

(***************************************************************************)
(* GraphState                                                              *)
(***************************************************************************)
\* run(): the initial state holds the question, the history, the provider
\* and three zeroed retry counters; every other key is absent
initial_state ==
    [documents |-> <<>>, web_results |-> <<>>, citations |-> <<>>,
     answer |-> Absent, evaluation |-> NoEvaluation, retry_count |-> 0,
     synthesis_output |-> Absent, structured_output |-> Absent,
     gate_1_result |-> NoGate, gate_2_result |-> NoGate,
     synthesis_retry_count |-> 0, structure_retry_count |-> 0,
     compiled_answer |-> Absent, compiler_evaluation |-> NoCompilerEvaluation,
     compiler_retry_count |-> 0,
     story_content |-> Absent, narrative_evaluation |-> NoNarrativeEvaluation,
     aethelgard_evaluation |-> NoAethelgardEvaluation,
     technical_baseline_score |-> 0, story_retry_count |-> 0, polish_retry_count |-> 0,
     enriched_answer |-> Absent, enrichment_applied |-> FALSE,
     enrichment_aborted |-> FALSE, abort_reason |-> "none"]

GatedStages == {"generate", "synthesis", "structure", "compile", "story", "polish"}

(***************************************************************************)
(* Research                                                                *)
(***************************************************************************)
SeqsUpTo(S, n) == UNION {[1..k -> S] : k \in 0..n}

Take(seq, n) == SubSeq(seq, 1, Min(n, Len(seq)))

\* search_prioritized: "Deduplicate by URL", first occurrence wins
RECURSIVE DedupByUrl(_, _)
DedupByUrl(results, seen_urls) ==
    IF results = <<>> THEN <<>>
    ELSE LET result == Head(results) IN
         IF result.url # "" /\ result.url \notin seen_urls
         THEN <<result>> \o DedupByUrl(Tail(results), seen_urls \cup {result.url})
         ELSE DedupByUrl(Tail(results), seen_urls)

\* depth_config["standard"]["tavily_results"]
tavily_results == 5

\* search_prioritized with the "Deduplicate by URL" loop left out
search_prioritized_without_dedup(all_results, max_results) ==
    Take(all_results, max_results)

search_prioritized(all_results, max_results) ==
    Take(DedupByUrl(all_results, {}), max_results)

\* _retrieve_documents_internal: documents[idx] gets id doc-(idx+1)
retrieve_documents_internal(results) ==
    [idx \in 1..Len(results) |->
        [id |-> <<"doc", idx>>, content |-> results[idx]]]

\* _web_search_internal: enumerate(results, start=1) gives id web-idx
web_search_internal(results) ==
    [idx \in 1..Len(results) |->
        [id |-> <<"web", idx>>, url |-> results[idx].url]]

\* _format_documents with enumerate(documents) left at its default start 0
format_documents_from_zero(documents) ==
    [idx \in 1..Len(documents) |->
        [id |-> <<"doc", idx - 1>>, source |-> documents[idx].content, type |-> "document"]]

\* _format_documents: the citation of documents[idx] is doc-idx
format_documents(documents) ==
    [idx \in 1..Len(documents) |->
        [id |-> <<"doc", idx>>, source |-> documents[idx].content, type |-> "document"]]

\* _format_web_results labelling its citations as documents
format_web_results_typed_document(results) ==
    [i \in 1..Len(results) |->
        [id |-> results[i].id, source |-> results[i].url, type |-> "document"]]

\* _format_web_results: the citation of a web result keeps the result's id
format_web_results(results) ==
    [i \in 1..Len(results) |->
        [id |-> results[i].id, source |-> results[i].url, type |-> "web"]]

parallel_research(state, results, all_results) ==
    [state EXCEPT
        !.documents = retrieve_documents_internal(results),
        !.web_results = web_search_internal(search_prioritized(all_results, tavily_results))]

(***************************************************************************)
(* Lightweight gates (quality_gates.py)                                    *)
(***************************************************************************)
\* gate_1_technical: 3+ code blocks, 10+ citation markers, 20+ backticks
gate_1_technical(content) ==
    [present |-> TRUE, passed |-> Truthy(content) /\ content.fmt /\ content.cites # {}]

\* gate_2_structure: 5+ headers, 8+ paragraphs, 3+ code blocks
gate_2_structure(content) ==
    [present |-> TRUE, passed |-> Truthy(content) /\ content.fmt]

(***************************************************************************)
(* Evaluators                                                              *)
(***************************************************************************)
\* reports of QualityEvaluator.evaluate (rubric of 100 points, pass at 85
\* with the coverage, density, exec and scope gates)
TechnicalReports ==
    { [present |-> TRUE, passed |-> TRUE, total_score |-> 95, feedback |-> <<>>],
      [present |-> TRUE, passed |-> FALSE, total_score |-> 90, feedback |-> <<"coverage">>],
      [present |-> TRUE, passed |-> FALSE, total_score |-> 60, feedback |-> <<"improve">>] }

\* the kinds re.findall(r'\[(doc|web)-\d+\]', text) returns: the pattern has
\* one group, so findall yields the group, not the whole marker
FindallKinds(content) == {id[1] : id \in content.cites}

SelectSeq2(pairs) ==
    LET keep(p) == p[1]
        RECURSIVE Walk(_)
        Walk(ps) == IF ps = <<>> THEN <<>>
                    ELSE IF keep(Head(ps)) THEN <<Head(ps)[2]>> \o Walk(Tail(ps))
                    ELSE Walk(Tail(ps))
    IN Walk(pairs)

\* deductions the text can earn beside the citation check: 3 when the
\* compiled text keeps under half of the technical answer's code fences
CompilerCodeDeductions(technical) == IF Truthy(technical) THEN {0, 3} ELSE {0}
MicroFixScores == {20, 5}
RealWorldScores == {15}

\* CompilerQualityEvaluator._evaluate_technical_preservation
compiler_technical_preservation(compiled, technical, code_deduction) ==
    LET missing_citations == FindallKinds(technical) \ FindallKinds(compiled)
        deduction == IF missing_citations = {} THEN 0
                     ELSE Min(10, Cardinality(missing_citations) * 2)
    IN Max(0, 30 - deduction - code_deduction)

\* CompilerQualityEvaluator.evaluate
compiler_evaluate(tech_score, psw_score, micro_fix_score, real_world_score, reflective_score) ==
    LET total_score == tech_score + psw_score + micro_fix_score + real_world_score
                       + reflective_score
    IN [present |-> TRUE,
        technical_preservation |-> tech_score, psw_structure |-> psw_score,
        micro_fix_clarity |-> micro_fix_score,
        real_world_integration |-> real_world_score,
        reflective_depth |-> reflective_score,
        total_score |-> total_score,
        passed |-> (total_score >= 95 /\ tech_score >= 28),
        feedback |-> SelectSeq2(<<
            <<tech_score < 28, "CRITICAL: technical facts or citations altered">>,
            <<tech_score >= 28 /\ tech_score < 30, "some citations missing">>,
            <<psw_score < 15, "PSW structure">>,
            <<micro_fix_score < 15, "CRITICAL: small fixes, big clarity">>,
            <<real_world_score < 12, "real-world examples">>,
            <<reflective_score < 12, "consider prompts">> >>)]

NarrativeTechDeductions == {0, 10}
ComplexityScores == {20, 5}
AhaScores == {20, 12}

\* NarrativeQualityEvaluator._evaluate_technical_preservation
narrative_technical_preservation(narrative, citations, other_deduction) ==
    LET missing_citations == CitationIds(citations) \ narrative.cites
        deduction == IF missing_citations = {} THEN 0
                     ELSE Min(10, Cardinality(missing_citations) * 2)
    IN Max(0, 30 - deduction - other_deduction)

\* NarrativeQualityEvaluator.evaluate
narrative_evaluate(tech_score, complexity_score, scenario_score, aha_score, flow_score) ==
    LET total_score == tech_score + complexity_score + scenario_score + aha_score
                       + flow_score
    IN [present |-> TRUE,
        technical_preservation |-> tech_score, complexity_alignment |-> complexity_score,
        scenario_quality |-> scenario_score, aha_moment |-> aha_score,
        narrative_flow |-> flow_score,
        total_score |-> total_score,
        passed |-> (total_score >= 80 /\ tech_score >= 25),
        feedback |-> SelectSeq2(<<
            <<tech_score < 25, "CRITICAL: technical facts or citations altered">>,
            <<tech_score >= 25 /\ tech_score < 28, "some citations missing">>,
            <<complexity_score < 15, "complexity">>,
            <<scenario_score < 15, "scenario">>,
            <<aha_score < 15, "CRITICAL: micro fix, macro impact">>,
            <<flow_score < 7, "flow">> >>)]

BrandVoiceScores == {25, 17}
KeywordScores == {20, 5}

\* AethelgardQualityEvaluator.evaluate
aethelgard_evaluate(brand_score, keyword_score, rag_score, quality_score, uniqueness_score) ==
    LET total_score == brand_score + keyword_score + rag_score + quality_score
                       + uniqueness_score
    IN [present |-> TRUE,
        brand_voice |-> brand_score, keyword_integration |-> keyword_score,
        rag_structure |-> rag_score, final_quality |-> quality_score,
        uniqueness |-> uniqueness_score,
        total_score |-> total_score,
        passed |-> (total_score >= 85 /\ brand_score >= 20),
        feedback |-> SelectSeq2(<<
            <<brand_score < 20, "CRITICAL: brand voice">>,
            <<keyword_score < 15, "keywords">>,
            <<rag_score < 15, "structure">>,
            <<quality_score < 15, "quality degraded">>,
            <<uniqueness_score < 10, "generic">> >>)]

(***************************************************************************)
(* Citation repair: _inject_missing_citations of technical_compiler.py,    *)
(* on strings                                                              *)
(***************************************************************************)
Char(s, i) == SubSeq(s, i, i)

UpperCase == "ABCDEFGHIJKLMNOPQRSTUVWXYZ"
LowerCase == "abcdefghijklmnopqrstuvwxyz"
Digits == "0123456789"

InString(c, alphabet) == \E i \in 1..Len(alphabet) : Char(alphabet, i) = c

\* \s of the regular expressions
IsSpace(c) == c \in {" ", "\n", "\t"}

\* \w of the regular expressions
IsWordChar(c) ==
    InString(c, LowerCase) \/ InString(c, UpperCase) \/ InString(c, Digits) \/ c = "_"

LowerChar(c) ==
    IF InString(c, UpperCase)
    THEN Char(LowerCase, CHOOSE i \in 1..Len(UpperCase) : Char(UpperCase, i) = c)
    ELSE c

\* str.lower()
RECURSIVE StrLower(_)
StrLower(s) ==
    IF s = "" THEN "" ELSE LowerChar(Char(s, 1)) \o StrLower(SubSeq(s, 2, Len(s)))

\* needle in hay
Contains(hay, needle) ==
    \E i \in 1..(Len(hay) - Len(needle) + 1) : SubSeq(hay, i, i + Len(needle) - 1) = needle

StartsWith(s, prefix) ==
    Len(prefix) <= Len(s) /\ SubSeq(s, 1, Len(prefix)) = prefix

\* str.endswith
EndsWith(s, suffix) ==
    Len(suffix) <= Len(s) /\ SubSeq(s, Len(s) - Len(suffix) + 1, Len(s)) = suffix

\* s.replace(old, '')
RECURSIVE RemoveAll(_, _)
RemoveAll(s, old) ==
    IF s = "" THEN ""
    ELSE IF StartsWith(s, old) THEN RemoveAll(SubSeq(s, Len(old) + 1, Len(s)), old)
    ELSE Char(s, 1) \o RemoveAll(SubSeq(s, 2, Len(s)), old)

\* str.strip()
RECURSIVE Strip(_)
Strip(s) ==
    IF s = "" THEN ""
    ELSE IF IsSpace(Char(s, 1)) THEN Strip(SubSeq(s, 2, Len(s)))
    ELSE IF IsSpace(Char(s, Len(s))) THEN Strip(SubSeq(s, 1, Len(s) - 1))
    ELSE s

\* end of the run of whitespace that starts at i
RECURSIVE SpaceRunEnd(_, _)
SpaceRunEnd(s, i) ==
    IF i < Len(s) /\ IsSpace(Char(s, i + 1)) THEN SpaceRunEnd(s, i + 1) ELSE i

\* re.split(r'(?<=[.!?])\s+', s): cut at every run of whitespace that
\* follows a '.', '!' or '?'; the whitespace is dropped
RECURSIVE SplitFrom(_, _, _)
SplitFrom(s, i, start) ==
    IF i > Len(s) THEN <<SubSeq(s, start, Len(s))>>
    ELSE IF IsSpace(Char(s, i)) /\ i > 1 /\ Char(s, i - 1) \in {".", "!", "?"}
    THEN LET j == SpaceRunEnd(s, i)
         IN <<SubSeq(s, start, i - 1)>> \o SplitFrom(s, j + 1, j + 1)
    ELSE SplitFrom(s, i + 1, start)

SplitSentences(s) == SplitFrom(s, 1, 1)

\* ' '.join(parts)
RECURSIVE JoinWithSpace(_)
JoinWithSpace(parts) ==
    IF parts = <<>> THEN ""
    ELSE IF Len(parts) = 1 THEN parts[1]
    ELSE parts[1] \o " " \o JoinWithSpace(Tail(parts))

\* end of the run of word characters that starts at i
RECURSIVE WordRunEnd(_, _)
WordRunEnd(s, i) ==
    IF i < Len(s) /\ IsWordChar(Char(s, i + 1)) THEN WordRunEnd(s, i + 1) ELSE i

\* re.findall(r'\b\w{5,}\b', s)
RECURSIVE FindLongWords(_, _)
FindLongWords(s, i) ==
    IF i > Len(s) THEN <<>>
    ELSE IF IsWordChar(Char(s, i))
    THEN LET j == WordRunEnd(s, i)
         IN (IF j - i + 1 >= 5 THEN <<SubSeq(s, i, j)>> ELSE <<>>)
            \o FindLongWords(s, j + 1)
    ELSE FindLongWords(s, i + 1)

StopList == {"which", "where", "there", "these", "those", "their", "about"}

\* key_terms of a source sentence
KeyTerms(source_sentence) ==
    LET words == FindLongWords(source_sentence, 1)
        lowered == [i \in 1..Len(words) |-> StrLower(words[i])]
    IN SelectSeq(lowered, LAMBDA w : w \notin StopList)

CitationTag(citation_id) == "[" \o citation_id \o "]"

\* the first sentence of the technical answer that holds the tag, the tag
\* removed and stripped; "" when there is none (source_sentence = None)
SourceSentence(tech_sentences, citation_tag) ==
    IF \E k \in 1..Len(tech_sentences) : Contains(tech_sentences[k], citation_tag)
    THEN LET k == CHOOSE k \in 1..Len(tech_sentences) :
                    /\ Contains(tech_sentences[k], citation_tag)
                    /\ \A m \in 1..(k - 1) : ~Contains(tech_sentences[m], citation_tag)
         IN Strip(RemoveAll(tech_sentences[k], citation_tag))
    ELSE ""

\* match_score of one compiled sentence
MatchScore(comp_sentence, key_terms) ==
    LET comp_lower == StrLower(comp_sentence)
    IN Cardinality({t \in 1..Len(key_terms) : Contains(comp_lower, key_terms[t])})

\* best_match_idx: the first sentence with the highest score above 0, or 0
BestMatchIdx(compiled_sentences, key_terms) ==
    LET score(k) == MatchScore(compiled_sentences[k], key_terms)
        best == {k \in 1..Len(compiled_sentences) :
                    /\ score(k) > 0
                    /\ \A m \in 1..Len(compiled_sentences) : score(m) <= score(k)
                    /\ \A m \in 1..(k - 1) : score(m) < score(k)}
    IN IF best = {} THEN 0 ELSE CHOOSE k \in best : TRUE

\* InjectTag putting the tag twice
InjectTag_twice(target_sentence, citation_tag) ==
    IF EndsWith(target_sentence, ".")
    THEN SubSeq(target_sentence, 1, Len(target_sentence) - 1)
         \o " " \o citation_tag \o " " \o citation_tag \o "."
    ELSE target_sentence \o " " \o citation_tag \o " " \o citation_tag

\* the tag put before the sentence's final '.', '!' or '?'
InjectTag(target_sentence, citation_tag) ==
    IF EndsWith(target_sentence, ".")
    THEN SubSeq(target_sentence, 1, Len(target_sentence) - 1) \o " " \o citation_tag \o "."
    ELSE IF EndsWith(target_sentence, "!") \/ EndsWith(target_sentence, "?")
    THEN SubSeq(target_sentence, 1, Len(target_sentence) - 1) \o " " \o citation_tag
         \o Char(target_sentence, Len(target_sentence))
    ELSE target_sentence \o " " \o citation_tag

Unbound == [bound |-> FALSE, sentences |-> <<>>]

\* one pass of the loop over missing_citations: compiled_sentences after it
InjectOne(compiled, tech_sentences, citation_id, before) ==
    LET citation_tag == CitationTag(citation_id)
        source_sentence == SourceSentence(tech_sentences, citation_tag)
        key_terms == KeyTerms(source_sentence)
        compiled_sentences == SplitSentences(compiled)
        best_match_idx == BestMatchIdx(compiled_sentences, key_terms)
    IN IF source_sentence = "" THEN before
       ELSE IF key_terms = <<>> THEN before
       ELSE IF best_match_idx > 0
               /\ ~Contains(compiled_sentences[best_match_idx], citation_tag)
       THEN [bound |-> TRUE,
             sentences |-> [compiled_sentences EXCEPT ![best_match_idx] =
                                InjectTag(@, citation_tag)]]
       ELSE [bound |-> TRUE, sentences |-> compiled_sentences]

RECURSIVE InjectLoop(_, _, _, _)
InjectLoop(compiled, tech_sentences, missing_citations, before) ==
    IF missing_citations = <<>> THEN before
    ELSE InjectLoop(compiled, tech_sentences, Tail(missing_citations),
                    InjectOne(compiled, tech_sentences, Head(missing_citations), before))

\* _inject_missing_citations: the text returned, or raised = TRUE for the
\* UnboundLocalError of joining compiled_sentences that was never assigned
inject_missing_citations(compiled, technical_answer, missing_citations) ==
    IF missing_citations = <<>> THEN [raised |-> FALSE, text |-> compiled]
    ELSE LET tech_sentences == SplitSentences(technical_answer)
             after == InjectLoop(compiled, tech_sentences, missing_citations, Unbound)
         IN IF after.bound
            THEN [raised |-> FALSE, text |-> JoinWithSpace(after.sentences)]
            ELSE [raised |-> TRUE, text |-> ""]

(***************************************************************************)
(* Technical compiler (technical_compiler.py), as the graph sees it        *)
(***************************************************************************)
\* What _inject_missing_citations can return to compile. compiled_sentences
\* is split again from the unchanged `compiled` for every missing ID, so at
\* most the marker of the last ID that found a sentence survives the join;
\* an ID is only looked for when its marker is in the technical answer.
\* When no missing ID reaches the split, the join reads an unbound local:
\* Raised stands for that UnboundLocalError.
Raised == [by |-> "raise", att |-> 0, cites |-> {}, fmt |-> FALSE]

InjectionOutcomes(compiled, technical_answer, missing_citations) ==
    {Raised} \cup
    {[compiled EXCEPT !.cites = @ \cup S] :
        S \in {T \in SUBSET (missing_citations \cap technical_answer.cites) :
                 Cardinality(T) <= 1 /\ (T # {} => Truthy(compiled))}}

\* TechnicalCompiler.compile: the texts it can return for the model's output
\* `compiled`; any exception is caught and returns the technical answer
CompileResults(technical_answer, citations, compiled) ==
    LET missing_citations == CitationIds(citations) \ compiled.cites
    IN IF missing_citations = {} THEN {compiled}
       ELSE {IF r = Raised THEN technical_answer ELSE r :
                r \in InjectionOutcomes(compiled, technical_answer, missing_citations)}

(***************************************************************************)
(* Node functions of ResearchGraph: the state each returns                 *)
(***************************************************************************)
\* _generate_answer: answer and citations are written; the popped keys
\* revision_feedback and evaluation are not part of the returned update
generate_answer(state, answer) ==
    [state EXCEPT
        !.answer = answer,
        !.citations = format_documents(state.documents)
                      \o format_web_results(state.web_results)]

\* _rewrite_answer
rewrite_answer(state, answer) ==
    generate_answer([state EXCEPT !.retry_count = @ + 1], answer)

\* _evaluate_answer zeroing the retry counter when the report is passed
evaluate_answer_resetting_on_pass(state, report) ==
    [state EXCEPT
        !.evaluation = report,
        !.retry_count = IF report.passed THEN 0 ELSE @]

\* _evaluate_answer
evaluate_answer(state, report) == [state EXCEPT !.evaluation = report]

\* _agent_1_synthesize
agent_1_synthesize(state, synthesis) ==
    LET gate_result == gate_1_technical(synthesis)
        current_retry == state.synthesis_retry_count
        next_retry == IF ~gate_result.passed THEN current_retry + 1 ELSE current_retry
    IN [state EXCEPT
          !.synthesis_output = synthesis,
          !.citations = format_documents(state.documents)
                        \o format_web_results(state.web_results),
          !.gate_1_result = gate_result,
          !.synthesis_retry_count = next_retry]

\* _agent_2_structure: with no synthesis the state is returned as it is
agent_2_structure(state, structured) ==
    IF ~Truthy(state.synthesis_output) THEN state
    ELSE LET gate_result == gate_2_structure(structured)
             current_retry == state.structure_retry_count
             next_retry == IF ~gate_result.passed THEN current_retry + 1
                           ELSE current_retry
         IN [state EXCEPT
               !.structured_output = structured,
               !.gate_2_result = gate_result,
               !.structure_retry_count = next_retry]

\* _prepare_for_compiler
prepare_for_compiler(state) ==
    IF settings.enable_sequential_pipeline /\ Truthy(state.structured_output)
    THEN [state EXCEPT !.answer = state.structured_output]
    ELSE state

\* _compile_technical
compile_technical(state, compiled) ==
    [state EXCEPT !.compiled_answer = compiled, !.compiler_retry_count = 0]

\* _evaluate_compiler
evaluate_compiler(state, evaluation) ==
    [state EXCEPT !.compiler_evaluation = evaluation]

\* _recompile
recompile(state, compiled) ==
    [state EXCEPT !.compiled_answer = compiled, !.compiler_retry_count = @ + 1]

\* _agent_4_enrich: without compiled content the state is returned as it is
agent_4_enrich(state, enriched_content) ==
    IF ~Truthy(state.compiled_answer) THEN state
    ELSE [state EXCEPT !.enriched_answer = enriched_content,
                       !.answer = enriched_content]

\* _create_scenario
create_scenario(state) ==
    [state EXCEPT
        !.technical_baseline_score = state.evaluation.total_score,
        !.story_retry_count = 0,
        !.polish_retry_count = 0]

\* _create_story
create_story(state, story) == [state EXCEPT !.story_content = story]

\* _regenerate_story
regenerate_story(state, story) ==
    create_story([state EXCEPT !.story_retry_count = @ + 1], story)

\* _evaluate_narrative
evaluate_narrative(state, evaluation) ==
    [state EXCEPT !.narrative_evaluation = evaluation]

\* _apply_polish
apply_polish(state, polished) == [state EXCEPT !.enriched_answer = polished]

\* _repolish
repolish(state, polished) ==
    apply_polish([state EXCEPT !.polish_retry_count = @ + 1], polished)

\* _evaluate_aethelgard
evaluate_aethelgard(state, evaluation) ==
    [state EXCEPT !.aethelgard_evaluation = evaluation]

\* _enrich_narrative: the enricher is called with keyword arguments its
\* enrich() does not take; the TypeError is caught and the answer kept
enrich_narrative(state) == [state EXCEPT !.enrichment_applied = FALSE]

(***************************************************************************)
(* Gate decisions (the conditional edges)                                  *)
(***************************************************************************)
\* _gate_1_decision
gate_1_decision(state) ==
    IF state.gate_1_result.passed THEN "agent_2"
    ELSE IF state.synthesis_retry_count >= 2 THEN "agent_2"
    ELSE "retry_agent_1"

\* _gate_2_decision
gate_2_decision(state) ==
    IF state.gate_2_result.passed THEN "compiler"
    ELSE IF state.structure_retry_count >= 2 THEN "compiler"
    ELSE "retry_agent_2"

\* _evaluation_decision
evaluation_decision(state) ==
    IF ~state.evaluation.present \/ state.evaluation.passed THEN "done"
    ELSE IF state.retry_count >= 5 THEN "done"
    ELSE IF state.evaluation.feedback = <<>> THEN "done"
    ELSE "rewrite"

\* QuestionClassifier.should_enrich with quality_score <= quality_threshold
should_enrich_up_to_threshold(basic, quality_score, quality_threshold) ==
    IF basic THEN quality_score <= quality_threshold ELSE TRUE

\* QuestionClassifier.should_enrich
should_enrich(basic, quality_score, quality_threshold) ==
    IF basic THEN quality_score < quality_threshold ELSE TRUE

enrichment_quality_threshold == 90

\* _evaluation_decision_with_enrichment
evaluation_decision_with_enrichment(state, basic) ==
    LET enrich == should_enrich(basic, state.evaluation.total_score,
                                enrichment_quality_threshold)
    IN IF ~state.evaluation.present \/ ~state.evaluation.passed
       THEN IF state.retry_count >= 5
            THEN (IF enrich THEN "enrich" ELSE "done")
            ELSE IF state.evaluation.feedback # <<>> THEN "rewrite"
            ELSE IF enrich THEN "enrich" ELSE "done"
       ELSE IF enrich THEN "enrich" ELSE "done"

\* _compiler_decision
compiler_decision(state) ==
    LET score == state.compiler_evaluation.total_score
        retry_count == state.compiler_retry_count
    IN IF score >= compiler_quality_threshold THEN "done"
       ELSE IF retry_count < 2 THEN "recompile"
       ELSE "done"

\* _narrative_decision with the retry test written > 1 in place of >= 1
narrative_decision_retry_off_by_one(state) ==
    LET narrative_eval == state.narrative_evaluation
    IN IF narrative_eval.technical_preservation < 25 THEN "abort"
       ELSE IF narrative_eval.passed THEN "continue"
       ELSE IF state.story_retry_count > 1 THEN "continue"
       ELSE IF narrative_eval.feedback # <<>> THEN "regenerate"
       ELSE "continue"

\* _narrative_decision
narrative_decision(state) ==
    LET narrative_eval == state.narrative_evaluation
    IN IF narrative_eval.technical_preservation < 25 THEN "abort"
       ELSE IF narrative_eval.passed THEN "continue"
       ELSE IF state.story_retry_count >= 1 THEN "continue"
       ELSE IF narrative_eval.feedback # <<>> THEN "regenerate"
       ELSE "continue"

\* _aethelgard_decision; final_quality is the total of the technical
\* evaluation the decision runs on the polished text
aethelgard_decision(state, final_quality) ==
    LET aethelgard_eval == state.aethelgard_evaluation
    IN IF final_quality < state.technical_baseline_score - quality_degradation_tolerance
       THEN "abort"
       ELSE IF aethelgard_eval.passed THEN "done"
       ELSE IF state.polish_retry_count >= 1 THEN "done"
       ELSE IF aethelgard_eval.feedback # <<>> THEN "repolish"
       ELSE "done"

\* the keys _aethelgard_decision assigns on the dict it was handed
aethelgard_decision_writes(state, final_quality) ==
    LET decision == aethelgard_decision(state, final_quality)
    IN IF decision = "abort"
       THEN [state EXCEPT !.enrichment_aborted = TRUE,
                          !.abort_reason = "Quality degraded",
                          !.enriched_answer = GetStr(state.answer)]
       ELSE IF decision = "done" THEN [state EXCEPT !.enrichment_applied = TRUE]
       ELSE state

\* LangGraph hands a conditional edge a copy of the state read from the
\* channels; what the edge function assigns on it is written nowhere
AfterConditionalEdge(state, seen_by_edge) == state

(***************************************************************************)
(* chat_query: the response built from the final state                     *)
(***************************************************************************)
\* _format_response preferring the compiled answer to the enriched one
format_response_compiled_first(state) ==
    [status |-> "ok",
     answer |-> IF Truthy(state.compiled_answer) THEN state.compiled_answer
                ELSE IF Truthy(state.enriched_answer) THEN state.enriched_answer
                ELSE GetStr(state.answer),
     citations |-> state.citations]

\* _format_response: enriched_answer or compiled_answer or answer
format_response(state) ==
    [status |-> "ok",
     answer |-> IF Truthy(state.enriched_answer) THEN state.enriched_answer
                ELSE IF Truthy(state.compiled_answer) THEN state.compiled_answer
                ELSE GetStr(state.answer),
     citations |-> state.citations]

NoResponseYet == [status |-> "none", answer |-> Absent, citations |-> <<>>]
ErrorResponse == [status |-> "error", answer |-> Absent, citations |-> <<>>]

(***************************************************************************)
(* The graph: one action per node, with the edge that leaves it            *)
(***************************************************************************)
NoRepairCall == [phase |-> "none"]

Init ==
    /\ settings \in GraphConfigurations
    /\ node = "research"
    /\ st = initial_state
    /\ steps = 0
    /\ runs = [x \in GatedStages |-> 0]
    /\ route = "start"
    /\ triggers = {}
    /\ response = NoResponseYet
    /\ rp = NoRepairCall

CanStep(n) == node = n /\ steps < RecursionLimit

Goto(target, label) ==
    /\ node' = target
    /\ route' = label
    /\ steps' = steps + 1
    /\ UNCHANGED <<settings, response, rp>>

Ran(stage) == runs' = [runs EXCEPT ![stage] = @ + 1]

do_research ==
    /\ CanStep("research")
    /\ \E results \in SeqsUpTo(Chunks, MaxDocs),
          all_results \in SeqsUpTo([url : Urls], MaxWeb) :
          st' = parallel_research(st, results, all_results)
    /\ Goto(IF settings.enable_sequential_pipeline THEN "agent_1_synthesize"
            ELSE IF settings.enable_multi_agent_pipeline THEN "classify_complexity"
            ELSE "generate", "edge")
    /\ UNCHANGED <<runs, triggers>>

do_agent_1_synthesize ==
    /\ CanStep("agent_1_synthesize")
    /\ Ran("synthesis")
    /\ \E synthesis \in ModelOutputs("synthesis", runs'["synthesis"],
                                     format_documents(st.documents)
                                     \o format_web_results(st.web_results), BOOLEAN) :
          st' = agent_1_synthesize(st, synthesis)
    /\ LET decision == gate_1_decision(st')
       IN Goto(IF decision = "agent_2" THEN "agent_2_structure"
               ELSE "agent_1_synthesize", decision)
    /\ UNCHANGED triggers

do_agent_2_structure ==
    /\ CanStep("agent_2_structure")
    /\ Ran("structure")
    /\ \E structured \in (IF Truthy(st.synthesis_output)
                          THEN ModelOutputs("structure", runs'["structure"],
                                            st.citations, BOOLEAN)
                          ELSE {EmptyStr}) :
          st' = agent_2_structure(st, structured)
    /\ LET decision == gate_2_decision(st')
       IN Goto(IF decision = "retry_agent_2" THEN "agent_2_structure"
               ELSE IF settings.enable_technical_compiler THEN "prepare_compiler"
               ELSE "END", decision)
    /\ UNCHANGED triggers

do_prepare_compiler ==
    /\ CanStep("prepare_compiler")
    /\ st' = prepare_for_compiler(st)
    /\ Goto("compile_technical", "edge")
    /\ UNCHANGED <<runs, triggers>>

do_compile_technical ==
    /\ CanStep("compile_technical")
    /\ Ran("compile")
    /\ \E out \in ModelOutputs("compile", runs'["compile"], st.citations, {FALSE}) :
       \E compiled \in CompileResults(GetStr(st.answer), st.citations, out) :
          st' = compile_technical(st, compiled)
    /\ Goto("evaluate_compiler", "edge")
    /\ UNCHANGED triggers

CompilerFloorHit(evaluation) ==
    evaluation.technical_preservation < 28 \/ evaluation.micro_fix_clarity < 15

do_evaluate_compiler ==
    /\ CanStep("evaluate_compiler")
    /\ \E code_deduction \in CompilerCodeDeductions(GetStr(st.answer)),
          micro_fix_score \in MicroFixScores,
          real_world_score \in RealWorldScores :
          LET tech_score == compiler_technical_preservation(
                                GetStr(st.compiled_answer), GetStr(st.answer),
                                code_deduction)
              evaluation == compiler_evaluate(tech_score, 20, micro_fix_score,
                                              real_world_score, 15)
          IN /\ st' = evaluate_compiler(st, evaluation)
             /\ triggers' = IF CompilerFloorHit(evaluation)
                            THEN triggers \cup {"compiler"} ELSE triggers
    /\ LET decision == compiler_decision(st')
       IN Goto(IF decision = "recompile" THEN "recompile"
               ELSE IF settings.enable_sequential_pipeline
                       /\ settings.enable_narrative_enrichment
                    THEN "agent_4_enrich"
               ELSE "END", decision)
    /\ UNCHANGED runs

do_recompile ==
    /\ CanStep("recompile")
    /\ Ran("compile")
    /\ \E out \in ModelOutputs("compile", runs'["compile"], st.citations, {FALSE}) :
       \E compiled \in CompileResults(GetStr(st.answer), st.citations, out) :
          st' = recompile(st, compiled)
    /\ Goto("evaluate_compiler", "edge")
    /\ UNCHANGED triggers

\* the model call of the enrichment raised
EnrichmentFailed == [by |-> "failed", att |-> 0, cites |-> {}, fmt |-> FALSE]

\* NarrativeEnrichmentAgent.enrich giving an empty text when the call fails
enrich_empty_on_failure(compiled_content, outcome) ==
    IF outcome = EnrichmentFailed THEN EmptyStr ELSE outcome

\* NarrativeEnrichmentAgent.enrich: any exception of the model call is
\* caught and the compiled content returned
enrich(compiled_content, outcome) ==
    IF outcome = EnrichmentFailed THEN compiled_content ELSE outcome

do_agent_4_enrich ==
    /\ CanStep("agent_4_enrich")
    /\ \E outcome \in ModelOutputs("agent_4", 1, st.citations, {FALSE})
                      \cup {EnrichmentFailed} :
          /\ st' = agent_4_enrich(st, enrich(GetStr(st.compiled_answer), outcome))
          /\ triggers' = IF outcome = EnrichmentFailed /\ Truthy(st.compiled_answer)
                         THEN triggers \cup {"enrichment_failed"} ELSE triggers
    /\ Goto("END", "edge")
    /\ UNCHANGED runs

do_classify_complexity ==
    /\ CanStep("classify_complexity")
    /\ st' = st
    /\ Goto("generate", "edge")
    /\ UNCHANGED <<runs, triggers>>

do_generate ==
    /\ CanStep("generate")
    /\ Ran("generate")
    /\ \E answer \in ModelOutputs("generate", runs'["generate"],
                                  format_documents(st.documents)
                                  \o format_web_results(st.web_results), {FALSE}) :
          st' = generate_answer(st, answer)
    /\ Goto("evaluate_quality", "edge")
    /\ UNCHANGED triggers

\* whether QuestionClassifier.classify(question) is BASIC
QuestionIsBasic == {TRUE, FALSE}

do_evaluate_quality ==
    /\ CanStep("evaluate_quality")
    /\ \E report \in TechnicalReports : st' = evaluate_answer(st, report)
    /\ IF settings.enable_multi_agent_pipeline
       THEN LET decision == evaluation_decision(st')
            IN Goto(IF decision = "rewrite" THEN "rewrite_content"
                    ELSE "create_scenario", decision)
       ELSE IF settings.enable_technical_compiler
       THEN LET decision == evaluation_decision(st')
            IN Goto(IF decision = "rewrite" THEN "rewrite_content"
                    ELSE "compile_technical", decision)
       ELSE IF settings.enable_narrative_enrichment
       THEN \E basic \in QuestionIsBasic :
            LET decision == evaluation_decision_with_enrichment(st', basic)
            IN Goto(IF decision = "rewrite" THEN "rewrite_content"
                    ELSE IF decision = "enrich" THEN "enrich_narrative"
                    ELSE "END", decision)
       ELSE LET decision == evaluation_decision(st')
            IN Goto(IF decision = "rewrite" THEN "rewrite_content" ELSE "END",
                    decision)
    /\ UNCHANGED <<runs, triggers>>

do_rewrite_content ==
    /\ CanStep("rewrite_content")
    /\ Ran("generate")
    /\ \E answer \in ModelOutputs("generate", runs'["generate"],
                                  format_documents(st.documents)
                                  \o format_web_results(st.web_results), {FALSE}) :
          st' = rewrite_answer(st, answer)
    /\ Goto("evaluate_quality", "edge")
    /\ UNCHANGED triggers

do_enrich_narrative ==
    /\ CanStep("enrich_narrative")
    /\ st' = enrich_narrative(st)
    /\ Goto("END", "edge")
    /\ UNCHANGED <<runs, triggers>>

do_create_scenario ==
    /\ CanStep("create_scenario")
    /\ st' = create_scenario(st)
    /\ Goto("create_story", "edge")
    /\ UNCHANGED <<runs, triggers>>

do_create_story ==
    /\ CanStep("create_story")
    /\ Ran("story")
    /\ \E story \in ModelOutputs("story", runs'["story"], st.citations, {FALSE}) :
          st' = create_story(st, story)
    /\ Goto("evaluate_narrative", "edge")
    /\ UNCHANGED triggers

NarrativeFloorHit(evaluation) ==
    evaluation.technical_preservation < 25 \/ evaluation.aha_moment < 15

do_evaluate_narrative ==
    /\ CanStep("evaluate_narrative")
    /\ \E other_deduction \in NarrativeTechDeductions,
          complexity_score \in ComplexityScores, aha_score \in AhaScores :
          LET tech_score == narrative_technical_preservation(
                                GetStr(st.story_content), st.citations, other_deduction)
              evaluation == narrative_evaluate(tech_score, complexity_score, 20,
                                               aha_score, 10)
          IN /\ st' = evaluate_narrative(st, evaluation)
             /\ triggers' = IF NarrativeFloorHit(evaluation)
                            THEN triggers \cup {"narrative"} ELSE triggers
    /\ LET decision == narrative_decision(st')
       IN Goto(IF decision = "regenerate" THEN "regenerate_story"
               ELSE IF decision = "continue" THEN "apply_polish"
               ELSE "END", decision)
    /\ UNCHANGED runs

do_regenerate_story ==
    /\ CanStep("regenerate_story")
    /\ Ran("story")
    /\ \E story \in ModelOutputs("story", runs'["story"], st.citations, {FALSE}) :
          st' = regenerate_story(st, story)
    /\ Goto("evaluate_narrative", "edge")
    /\ UNCHANGED triggers

do_apply_polish ==
    /\ CanStep("apply_polish")
    /\ Ran("polish")
    /\ \E polished \in ModelOutputs("polish", runs'["polish"], st.citations, {FALSE}) :
          st' = apply_polish(st, polished)
    /\ Goto("evaluate_aethelgard", "edge")
    /\ UNCHANGED triggers

\* total scores the technical evaluation of a polished text can give
FinalQualityScores == {95, 60}

do_evaluate_aethelgard ==
    /\ CanStep("evaluate_aethelgard")
    /\ \E brand_score \in BrandVoiceScores, keyword_score \in KeywordScores,
          final_quality \in FinalQualityScores :
          LET evaluation == aethelgard_evaluate(brand_score, keyword_score, 20, 20, 15)
              evaluated == evaluate_aethelgard(st, evaluation)
              decision == aethelgard_decision(evaluated, final_quality)
          IN /\ st' = AfterConditionalEdge(
                          evaluated, aethelgard_decision_writes(evaluated, final_quality))
             /\ triggers' = triggers
                            \cup (IF evaluation.brand_voice < 20 THEN {"brand"} ELSE {})
                            \cup (IF decision = "abort" THEN {"degraded"} ELSE {})
             /\ Goto(IF decision = "repolish" THEN "repolish" ELSE "END", decision)
    /\ UNCHANGED runs

do_repolish ==
    /\ CanStep("repolish")
    /\ Ran("polish")
    /\ \E polished \in ModelOutputs("polish", runs'["polish"], st.citations, {FALSE}) :
          st' = repolish(st, polished)
    /\ Goto("evaluate_aethelgard", "edge")
    /\ UNCHANGED triggers

\* LangGraph: a run that has not reached END within the recursion limit
\* raises GraphRecursionError out of ainvoke
graph_recursion_error ==
    /\ node \notin {"END", "ERROR"}
    /\ steps >= RecursionLimit
    /\ node' = "ERROR"
    /\ UNCHANGED <<settings, st, steps, runs, route, triggers, response, rp>>

\* chat_query: the final state is formatted; an exception of the run
\* becomes an HTTP 500
chat_query ==
    /\ node \in {"END", "ERROR"}
    /\ response.status = "none"
    /\ response' = IF node = "END" THEN format_response(st) ELSE ErrorResponse
    /\ UNCHANGED <<settings, node, st, steps, runs, route, triggers, rp>>

Next ==
    \/ do_research
    \/ do_agent_1_synthesize
    \/ do_agent_2_structure
    \/ do_prepare_compiler
    \/ do_compile_technical
    \/ do_evaluate_compiler
    \/ do_recompile
    \/ do_agent_4_enrich
    \/ do_classify_complexity
    \/ do_generate
    \/ do_evaluate_quality
    \/ do_rewrite_content
    \/ do_enrich_narrative
    \/ do_create_scenario
    \/ do_create_story
    \/ do_evaluate_narrative
    \/ do_regenerate_story
    \/ do_apply_polish
    \/ do_evaluate_aethelgard
    \/ do_repolish
    \/ graph_recursion_error
    \/ chat_query

Spec == Init /\ [][Next]_vars


(***************************************************************************)
(* The technical compiler's citation repair on its own: the inputs of one  *)
(* call are drawn from texts that exercise every branch of the loop        *)
(***************************************************************************)
TechnicalAnswers ==
    { "Lists are ordered [doc-1] and mutable [doc-2].",
      "Lists are ordered [doc-1]. Tuples stay frozen [doc-2]!",
      "See [doc-1]. It is so [doc-2].",
      "[doc-1] Which ones? Tuples [doc-2] [doc-2]",
      "" }

CompiledTexts ==
    { "Lists maintain order and support mutation.",
      "Lists keep order.\n\nTuples stay fixed!",
      "LISTS [doc-1] win. Are tuples frozen?  Lists",
      "Nothing here",
      "" }

CitationIdLists ==
    { <<"doc-1">>, <<"doc-2">>, <<"doc-1", "doc-2">>, <<"doc-2", "doc-1">>,
      <<"web-9">>, <<"doc-1", "web-9">> }

\* TechnicalCompiler.compile from the model's response on: the IDs whose
\* tag the response lacks are repaired, and any exception gives the
\* technical answer back
compile_after_response(response_content, technical_answer, citation_ids) ==
    LET compiled == Strip(response_content)
        missing_citations ==
            SelectSeq(citation_ids,
                      LAMBDA cid : cid # "" /\ ~Contains(compiled, CitationTag(cid)))
        injected == inject_missing_citations(compiled, technical_answer, missing_citations)
    IN IF missing_citations = <<>> THEN compiled
       ELSE IF injected.raised THEN technical_answer
       ELSE injected.text

RepairInit ==
    /\ settings = Cfg(FALSE, TRUE, FALSE, FALSE)
    /\ node = "compile_technical"
    /\ st = initial_state
    /\ steps = 0
    /\ runs = [x \in GatedStages |-> 0]
    /\ route = "start"
    /\ triggers = {}
    /\ response = NoResponseYet
    /\ \E c \in CompiledTexts, t \in TechnicalAnswers, ids \in CitationIdLists :
          rp = [phase |-> "ready", compiled |-> c, technical_answer |-> t,
                missing_citations |-> ids]

\* a direct call _inject_missing_citations(compiled, technical_answer, missing_citations)
call_inject_missing_citations ==
    /\ rp.phase = "ready"
    /\ LET r == inject_missing_citations(rp.compiled, rp.technical_answer,
                                         rp.missing_citations)
       IN rp' = [phase |-> "returned", compiled |-> rp.compiled,
                 technical_answer |-> rp.technical_answer,
                 missing_citations |-> rp.missing_citations,
                 raised |-> r.raised, text |-> r.text]
    /\ UNCHANGED orchVars

\* the same texts through TechnicalCompiler.compile, the list being the
\* citations' IDs
call_compile ==
    /\ rp.phase = "ready"
    /\ rp' = [phase |-> "compiled", compiled |-> rp.compiled,
              technical_answer |-> rp.technical_answer,
              missing_citations |-> rp.missing_citations,
              raised |-> FALSE,
              text |-> compile_after_response(rp.compiled, rp.technical_answer,
                                              rp.missing_citations)]
    /\ UNCHANGED orchVars

RepairNext == call_inject_missing_citations \/ call_compile

SpecRepair == RepairInit /\ [][RepairNext]_vars


(***************************************************************************)
(* Research and citation numbering on its own: the vector store and the    *)
(* tiered web search return longer lists than the graph model explores,    *)
(* with repeated and empty URLs                                            *)
(***************************************************************************)
\* most chunks and most raw web results of one research call
MaxChunks == 2
MaxRawWeb == 3

ResearchChunks == {"c1", "c2"}
ResearchUrls == {"", "u1", "u2"}

CitationsInit ==
    /\ settings = Cfg(FALSE, FALSE, FALSE, FALSE)
    /\ node = "research"
    /\ st = initial_state
    /\ steps = 0
    /\ runs = [x \in GatedStages |-> 0]
    /\ route = "start"
    /\ triggers = {}
    /\ response = NoResponseYet
    /\ \E results \in SeqsUpTo(ResearchChunks, MaxChunks),
          all_results \in SeqsUpTo([url : ResearchUrls], MaxRawWeb) :
          rp = [phase |-> "research", results |-> results, all_results |-> all_results]

\* _parallel_research on the lists of this call
run_parallel_research ==
    /\ node = "research"
    /\ st' = parallel_research(st, rp.results, rp.all_results)
    /\ node' = "generate"
    /\ UNCHANGED <<settings, steps, runs, route, triggers, response, rp>>

\* the answer a model writes from the formatted context of the state
ContextAnswers(state, attempt) ==
    ModelOutputs("generate", attempt,
                 format_documents(state.documents)
                 \o format_web_results(state.web_results), {FALSE})

\* _generate_answer
run_generate_answer ==
    /\ node = "generate"
    /\ runs' = [runs EXCEPT !["generate"] = 1]
    /\ \E answer \in ContextAnswers(st, 1) : st' = generate_answer(st, answer)
    /\ node' = "rewrite_content"
    /\ UNCHANGED <<settings, steps, route, triggers, response, rp>>

\* _rewrite_answer, as often as _evaluation_decision allows
run_rewrite_answer ==
    /\ node = "rewrite_content"
    /\ st.retry_count < 5
    /\ runs' = [runs EXCEPT !["generate"] = @ + 1]
    /\ \E answer \in ContextAnswers(st, runs'["generate"]) :
          st' = rewrite_answer(st, answer)
    /\ UNCHANGED <<settings, node, steps, route, triggers, response, rp>>

CitationsNext == run_parallel_research \/ run_generate_answer \/ run_rewrite_answer

SpecCitations == CitationsInit /\ [][CitationsNext]_vars


(***************************************************************************)
(* The tiered web search on its own: TavilyResearchClient                  *)
(***************************************************************************)
\* most results one tier search returns
MaxTierResults == 2

TierUrls == {"", "u1", "u2"}

\* what the Tavily client does for one tier: it raises, or it answers with
\* a list of results
TierFailed == [ok |-> FALSE, results |-> <<>>]
TierOutcomes ==
    {TierFailed} \cup
    {[ok |-> TRUE, results |-> rs] : rs \in SeqsUpTo([url : TierUrls], MaxTierResults)}

Depths == {"quick", "standard", "deep"}

\* searches: the tiers a depth searches, in this order
TierSearches(depth) ==
    IF depth = "quick" THEN <<"tier_1">>
    ELSE IF depth = "standard" THEN <<"tier_1", "tier_2">>
    ELSE <<"tier_1", "tier_2", "tier_3">>

\* _search_tier: the results with the tier's metadata; an exception of the
\* client is caught and gives []
search_tier(tier, outcome) ==
    IF ~outcome.ok THEN <<>>
    ELSE [i \in 1..Len(outcome.results) |->
            [url |-> outcome.results[i].url, priority_tier |-> tier]]

\* the loop over searches with each tier's results put in front of all_results
RECURSIVE search_tiers_reversed(_, _, _)
search_tiers_reversed(searches, outcomes, k) ==
    IF k = 0 THEN <<>>
    ELSE search_tier(searches[k], outcomes[k])
         \o search_tiers_reversed(searches, outcomes, k - 1)

\* the loop over searches: all_results after the first k tiers
RECURSIVE search_tiers(_, _, _)
search_tiers(searches, outcomes, k) ==
    IF k = 0 THEN <<>>
    ELSE search_tiers(searches, outcomes, k - 1)
         \o search_tier(searches[k], outcomes[k])

\* search_prioritized(query, depth, max_results), the client's answers given
search_prioritized_depth(depth, outcomes, max_results) ==
    LET searches == TierSearches(depth)
    IN search_prioritized(search_tiers(searches, outcomes, Len(searches)), max_results)

\* values of max_results: one that truncates, and the graph's own
MaxResultsValues == {1, tavily_results}

TiersInit ==
    /\ settings = Cfg(FALSE, FALSE, FALSE, FALSE)
    /\ node = "research"
    /\ st = initial_state
    /\ steps = 0
    /\ runs = [x \in GatedStages |-> 0]
    /\ route = "start"
    /\ triggers = {}
    /\ response = NoResponseYet
    /\ \E depth \in Depths, max_results \in MaxResultsValues :
       \E outcomes \in [1..Len(TierSearches(depth)) -> TierOutcomes] :
          rp = [phase |-> "ready", depth |-> depth, max_results |-> max_results,
                outcomes |-> outcomes, final_results |-> <<>>]

call_search_prioritized ==
    /\ rp.phase = "ready"
    /\ rp' = [rp EXCEPT
                !.phase = "searched",
                !.final_results =
                    search_prioritized_depth(rp.depth, rp.outcomes, rp.max_results)]
    /\ UNCHANGED orchVars

TiersNext == call_search_prioritized

SpecTiers == TiersInit /\ [][TiersNext]_vars

(***************************************************************************)
(* The research stage step by step: the two coroutines of                  *)
(* _parallel_research, each advancing at its awaits, and the model call    *)
(* of the stage that follows                                               *)
(***************************************************************************)
\* depth_config[research_mode]["rag_limit"]
depth_rag_limit(research_mode) ==
    IF research_mode = "quick" THEN 10
    ELSE IF research_mode = "deep" THEN 20
    ELSE 15

\* depth_config with the web limit of "standard" in every row
depth_tavily_results_flat(research_mode) == tavily_results

\* depth_config[research_mode]["tavily_results"]
depth_tavily_results(research_mode) ==
    IF research_mode = "deep" THEN 10 ELSE tavily_results

\* what the Tavily client answers to one tier search in a run
ResearchTierOutcomes ==
    { TierFailed,
      [ok |-> TRUE, results |-> <<[url |-> "u1"]>>],
      [ok |-> TRUE, results |-> <<[url |-> "u1"], [url |-> "u2"]>>] }

\* the for loop of search_prioritized goes on to the next tier without
\* looking at how the tier ended
after_tier_abandoning_on_failure(k, outcome, n) ==
    IF outcome.ok THEN k + 1 ELSE n + 1

after_tier(k, outcome, n) == k + 1

\* asyncio.gather returning at the first coroutine that is done
gather_first_completed(rag_pc, web_pc, n) == rag_pc = "done" \/ web_pc = n + 1

\* asyncio.gather(rag_task, tavily_task) returns when both are done
gather_completed(rag_pc, web_pc, n) == rag_pc = "done" /\ web_pc = n + 1

ResearchInit ==
    /\ settings \in {Cfg(TRUE, FALSE, FALSE, FALSE), Cfg(FALSE, FALSE, FALSE, FALSE)}
    /\ node = "research"
    /\ st = initial_state
    /\ steps = 0
    /\ runs = [x \in GatedStages |-> 0]
    /\ route = "start"
    /\ triggers = {}
    /\ response = NoResponseYet
    /\ \E research_mode \in Depths, always_use_tavily \in BOOLEAN, tavily_research \in BOOLEAN :
          rp = [phase |-> "ready", research_mode |-> research_mode,
                always_use_tavily |-> always_use_tavily,
                tavily_research |-> tavily_research,
                rag_pc |-> "new", rag_limit |-> 0, documents |-> <<>>,
                web_pc |-> 0, max_results |-> 0, searched |-> <<>>,
                outcomes |-> <<>>, all_results |-> <<>>,
                web_results |-> <<>>, overlapped |-> FALSE]

ResearchTiers == Len(TierSearches(rp.research_mode))

ResearchUnchanged == UNCHANGED <<settings, steps, route, triggers, response>>

\* _parallel_research up to its await: the coroutines are created
start_parallel_research ==
    /\ node = "research"
    /\ rp.phase = "ready"
    /\ rp' = IF rp.always_use_tavily /\ rp.tavily_research
             THEN [rp EXCEPT !.phase = "gather", !.rag_pc = "embed", !.web_pc = 1,
                             !.rag_limit = depth_rag_limit(rp.research_mode),
                             !.max_results = depth_tavily_results(rp.research_mode)]
             ELSE [rp EXCEPT !.phase = "rag_only", !.rag_pc = "embed",
                             !.rag_limit = depth_rag_limit(rp.research_mode)]
    /\ UNCHANGED <<node, st, runs>>
    /\ ResearchUnchanged

\* _retrieve_documents_internal: await embed_documents([question])
embed_documents ==
    /\ rp.rag_pc = "embed"
    /\ \E ok \in BOOLEAN :
          rp' = [rp EXCEPT
                    !.rag_pc = IF ok THEN "search" ELSE "raised",
                    !.overlapped = @ \/ (1 < rp.web_pc /\ rp.web_pc <= ResearchTiers)]
    /\ UNCHANGED <<node, st, runs>>
    /\ ResearchUnchanged

\* _retrieve_documents_internal: await similarity_search(...) and the list
\* built from its results
similarity_search ==
    /\ rp.rag_pc = "search"
    /\ \/ \E results \in SeqsUpTo(Chunks, MaxDocs) :
             rp' = [rp EXCEPT
                       !.rag_pc = "done",
                       !.documents = retrieve_documents_internal(results),
                       !.overlapped = @ \/ (1 < rp.web_pc /\ rp.web_pc <= ResearchTiers)]
       \/ rp' = [rp EXCEPT !.rag_pc = "raised"]
    /\ UNCHANGED <<node, st, runs>>
    /\ ResearchUnchanged

\* _web_search_internal inside search_prioritized: one round of the loop
\* over searches; after the last round the results are deduplicated, cut
\* and given their web ids
search_next_tier ==
    /\ rp.web_pc \in 1..ResearchTiers
    /\ \E outcome \in ResearchTierOutcomes :
          LET k == rp.web_pc
              all_results == rp.all_results
                             \o search_tier(TierSearches(rp.research_mode)[k], outcome)
              next == after_tier(k, outcome, ResearchTiers)
          IN rp' = [rp EXCEPT
                      !.web_pc = next,
                      !.searched = Append(@, TierSearches(rp.research_mode)[k]),
                      !.outcomes = Append(@, outcome),
                      !.all_results = all_results,
                      !.web_results =
                          IF next = ResearchTiers + 1
                          THEN web_search_internal(
                                   search_prioritized(all_results, rp.max_results))
                          ELSE @,
                      !.overlapped = @ \/ rp.rag_pc = "search"]
    /\ UNCHANGED <<node, st, runs>>
    /\ ResearchUnchanged

ResearchSuccessor ==
    IF settings.enable_sequential_pipeline THEN "agent_1_synthesize" ELSE "generate"

\* _parallel_research after its await: both lists go into the state
join_parallel_research ==
    /\ node = "research"
    /\ \/ rp.phase = "gather" /\ gather_completed(rp.rag_pc, rp.web_pc, ResearchTiers)
       \/ rp.phase = "rag_only" /\ rp.rag_pc = "done"
    /\ st' = [st EXCEPT
                !.documents = rp.documents,
                !.web_results = IF rp.phase = "gather" THEN rp.web_results ELSE <<>>]
    /\ rp' = [rp EXCEPT !.phase = "joined"]
    /\ node' = ResearchSuccessor
    /\ UNCHANGED runs
    /\ ResearchUnchanged

\* the exception of rag_task leaves the await, _parallel_research and ainvoke
research_raises ==
    /\ node = "research"
    /\ rp.phase \in {"gather", "rag_only"}
    /\ rp.rag_pc = "raised"
    /\ rp' = [rp EXCEPT !.phase = "raised"]
    /\ node' = "ERROR"
    /\ UNCHANGED <<st, runs>>
    /\ ResearchUnchanged

\* _generate_answer: model.ainvoke answers or raises
research_generate ==
    /\ node = "generate"
    /\ runs' = [runs EXCEPT !["generate"] = @ + 1]
    /\ \/ /\ \E answer \in ContextAnswers(st, 1) : st' = generate_answer(st, answer)
          /\ node' = "evaluate_quality"
          /\ UNCHANGED rp
       \/ /\ node' = "ERROR"
          /\ rp' = [rp EXCEPT !.phase = "model_raised"]
          /\ UNCHANGED st
    /\ ResearchUnchanged

\* _agent_1_synthesize: synthesize answers, or logs its exception and
\* raises it again
research_synthesize ==
    /\ node = "agent_1_synthesize"
    /\ runs' = [runs EXCEPT !["synthesis"] = @ + 1]
    /\ \/ /\ \E synthesis \in ModelOutputs("synthesis", runs'["synthesis"],
                                           format_documents(st.documents)
                                           \o format_web_results(st.web_results), BOOLEAN) :
                st' = agent_1_synthesize(st, synthesis)
          /\ node' = IF gate_1_decision(st') = "agent_2" THEN "agent_2_structure"
                     ELSE "agent_1_synthesize"
          /\ UNCHANGED rp
       \/ /\ node' = "ERROR"
          /\ rp' = [rp EXCEPT !.phase = "model_raised"]
          /\ UNCHANGED st
    /\ ResearchUnchanged

ResearchNext ==
    \/ start_parallel_research
    \/ embed_documents
    \/ similarity_search
    \/ search_next_tier
    \/ join_parallel_research
    \/ research_raises
    \/ research_generate
    \/ research_synthesize
    \/ chat_query

SpecResearch == ResearchInit /\ [][ResearchNext]_vars

\* the event loop runs a coroutine that is ready
FairSpecResearch == SpecResearch /\ WF_vars(ResearchNext)


(***************************************************************************)
(* The legacy web-search decision on its own: _should_web_search           *)
(***************************************************************************)
\* most documents a retrieval hands to the decision
MaxRetrieved == 3

\* similarity distances, in hundredths
ScoreValues == {0, 30, 50, 51, 70, 100}

\* what similarity_search returns: the nearest chunk first
RetrievedDocuments ==
    {documents \in SeqsUpTo([score : ScoreValues], MaxRetrieved) :
        \A i, j \in 1..Len(documents) : i < j => documents[i].score <= documents[j].score}

\* _should_web_search with top_score >= 0.5
should_web_search_from_threshold(documents) ==
    IF Len(documents) = 0 THEN "web_search"
    ELSE IF Len(documents) < 2 /\ documents[1].score >= 50 THEN "web_search"
    ELSE "answer"

\* _should_web_search
should_web_search(documents) ==
    IF Len(documents) = 0 THEN "web_search"
    ELSE IF Len(documents) < 2 /\ documents[1].score > 50 THEN "web_search"
    ELSE "answer"

FallbackInit ==
    /\ settings = Cfg(FALSE, FALSE, FALSE, FALSE)
    /\ node = "research"
    /\ steps = 0
    /\ runs = [x \in GatedStages |-> 0]
    /\ route = "start"
    /\ triggers = {}
    /\ response = NoResponseYet
    /\ rp = [phase |-> "ready"]
    /\ \E documents \in RetrievedDocuments, retry_count \in 0..1 :
          st = [initial_state EXCEPT !.documents = documents, !.retry_count = retry_count]

call_should_web_search ==
    /\ rp.phase = "ready"
    /\ rp' = [phase |-> "decided"]
    /\ route' = should_web_search(st.documents)
    /\ UNCHANGED <<settings, node, st, steps, runs, triggers, response>>

SpecFallback == FallbackInit /\ [][call_should_web_search]_vars

(***************************************************************************)
(* Streaming mode of chat_query: event_generator over a run of the legacy  *)
(* graph.  astream_events is taken to deliver what the generator reads: an *)
(* on_node_end event with the node's name when a node has ended, and an    *)
(* on_chain_end event with the final state when the run has ended          *)
(***************************************************************************)
StreamEvent(type, n) == [type |-> type, node |-> n]

\* the events event_generator yields for on_node_end of node n
OnNodeEnd(n) ==
    IF n = "research" THEN <<StreamEvent("documents", n), StreamEvent("web_results", n)>>
    ELSE IF n = "generate" THEN <<StreamEvent("answer", n)>>
    ELSE IF n = "evaluate_quality" THEN <<StreamEvent("evaluation", n)>>
    ELSE IF n \in {"compile_technical", "evaluate_compiler"} THEN <<StreamEvent("status", n)>>
    ELSE <<>>

\* what a node of the legacy graph does to the retry counters and reports
\* of the state, with the node the graph goes to next
StreamNodeResults(n, state) ==
    IF n = "research" THEN {<<state, "generate">>}
    ELSE IF n = "generate" THEN {<<state, "evaluate_quality">>}
    ELSE IF n = "evaluate_quality"
    THEN {<<evaluate_answer(state, report),
            IF evaluation_decision(evaluate_answer(state, report)) = "rewrite"
            THEN "rewrite_content"
            ELSE IF settings.enable_technical_compiler THEN "compile_technical"
            ELSE "END">> : report \in TechnicalReports}
    ELSE IF n = "rewrite_content"
    THEN {<<[state EXCEPT !.retry_count = @ + 1], "evaluate_quality">>}
    ELSE IF n = "compile_technical"
    THEN {<<[state EXCEPT !.compiler_retry_count = 0], "evaluate_compiler">>}
    ELSE IF n = "evaluate_compiler"
    THEN {<<evaluate_compiler(state, evaluation),
            IF compiler_decision(evaluate_compiler(state, evaluation)) = "recompile"
            THEN "recompile" ELSE "END">> :
             evaluation \in {compiler_evaluate(30, 20, micro_fix_score, 15, 15) :
                                micro_fix_score \in MicroFixScores}}
    ELSE {<<[state EXCEPT !.compiler_retry_count = @ + 1], "evaluate_compiler">>}

StreamInit ==
    /\ settings \in {Cfg(FALSE, TRUE, FALSE, FALSE), Cfg(FALSE, FALSE, FALSE, FALSE)}
    /\ node = "research"
    /\ st = initial_state
    /\ steps = 0
    /\ runs = [x \in GatedStages |-> 0]
    /\ route = "start"
    /\ triggers = {}
    /\ response = NoResponseYet
    /\ rp = [phase |-> "new", executed |-> <<>>, events |-> <<>>]

\* event_generator up to the loop: the first status event
stream_start ==
    /\ rp.phase = "new"
    /\ rp' = [rp EXCEPT !.phase = "running",
                        !.events = <<StreamEvent("status", "none")>>]
    /\ UNCHANGED orchVars

\* a node of the run ends and the generator handles its on_node_end
stream_node_end ==
    /\ rp.phase = "running"
    /\ node # "END"
    /\ \E result \in StreamNodeResults(node, st) :
          /\ st' = result[1]
          /\ node' = result[2]
    /\ rp' = [rp EXCEPT !.executed = Append(@, node),
                        !.events = @ \o OnNodeEnd(node)]
    /\ UNCHANGED <<settings, steps, runs, route, triggers, response>>

\* on_chain_end gives the final state; after the loop the done event
stream_chain_end ==
    /\ rp.phase = "running"
    /\ node = "END"
    /\ rp' = [rp EXCEPT !.phase = "finished",
                        !.events = Append(@, StreamEvent("done", "none"))]
    /\ response' = format_response(st)
    /\ UNCHANGED <<settings, node, st, steps, runs, route, triggers>>

StreamNext == stream_start \/ stream_node_end \/ stream_chain_end

SpecStream == StreamInit /\ [][StreamNext]_vars

(***************************************************************************)
(* The provider factory on its own: get_chat_model                         *)
(***************************************************************************)
ProviderNames == {"openai", "gemini", "openrouter"}

\* resolve_credentials: the key of the provider from the environment; the
\* secret store and the secret token are not read
resolve_credentials(provider, environment, secret_token) ==
    IF provider \in ProviderNames /\ provider \in environment
    THEN [ok |-> TRUE, api_key |-> <<"environment", provider>>]
    ELSE [ok |-> FALSE, api_key |-> <<"none", provider>>]

\* get_chat_model: resolve_settings, resolve_credentials, then the model
get_chat_model(provider, environment, secret_token) ==
    IF provider \notin ProviderNames THEN "ProviderConfigurationError"
    ELSE IF ~resolve_credentials(provider, environment, secret_token).ok
    THEN "ProviderConfigurationError"
    ELSE "model"

\* a call: the provider asked for, the providers whose key the environment
\* holds, and the provider a secret token was stored for ("none": no token)
ProviderInit ==
    /\ settings = Cfg(FALSE, FALSE, FALSE, FALSE)
    /\ node = "research"
    /\ st = initial_state
    /\ steps = 0
    /\ runs = [x \in GatedStages |-> 0]
    /\ route = "start"
    /\ triggers = {}
    /\ response = NoResponseYet
    /\ \E provider \in ProviderNames \cup {"other"},
          environment \in SUBSET ProviderNames,
          stored_for \in ProviderNames \cup {"none"} :
          rp = [phase |-> "ready", provider |-> provider, environment |-> environment,
                stored_for |-> stored_for, result |-> "none"]

call_get_chat_model ==
    /\ rp.phase = "ready"
    /\ rp' = [rp EXCEPT !.phase = "returned",
                        !.result = get_chat_model(rp.provider, rp.environment, rp.stored_for)]
    /\ UNCHANGED orchVars

SpecProvider == ProviderInit /\ [][call_get_chat_model]_vars

(***************************************************************************)
(* The enrichment routing on its own: QuestionClassifier.should_enrich     *)
(***************************************************************************)
\* QuestionComplexity
QuestionComplexities == {"basic", "standard", "complex"}

\* quality scores, every fifth point of the scale
QualityScores == {5 * k : k \in 0..20}

\* quality_threshold: the default of should_enrich, and the setting
QualityThresholds == {90, 85}

EnrichInit ==
    /\ settings = Cfg(FALSE, FALSE, FALSE, TRUE)
    /\ node = "evaluate_quality"
    /\ st = initial_state
    /\ steps = 0
    /\ runs = [x \in GatedStages |-> 0]
    /\ route = "start"
    /\ triggers = {}
    /\ response = NoResponseYet
    /\ \E complexity \in QuestionComplexities, quality_score \in QualityScores,
          quality_threshold \in QualityThresholds :
          rp = [phase |-> "ready", complexity |-> complexity,
                quality_score |-> quality_score,
                quality_threshold |-> quality_threshold, result |-> FALSE]

call_should_enrich ==
    /\ rp.phase = "ready"
    /\ rp' = [rp EXCEPT !.phase = "returned",
                        !.result = should_enrich(rp.complexity = "basic", rp.quality_score,
                                                 rp.quality_threshold)]
    /\ UNCHANGED orchVars

SpecEnrich == EnrichInit /\ [][call_should_enrich]_vars

(***************************************************************************)
(* The three evaluators on their own: every criterion score is drawn from  *)
(* the values its scoring function can return, each deduction taken or not *)
(***************************************************************************)
\* CompilerQualityEvaluator._evaluate_technical_preservation: 2 per missing
\* kind of marker, 10 or 3 for lost code fences, 5 for lost terms
compiler_technical_preservation_scores ==
    {Max(0, 30 - citations - code - terms) :
        citations \in {0, 2, 4}, code \in {0, 3, 10}, terms \in {0, 5}}

\* CompilerQualityEvaluator._evaluate_psw_structure
psw_structure_scores ==
    {Max(0, 20 - labels - problem - system - win) :
        labels \in {0, 10}, problem \in {0, 5}, system \in {0, 5}, win \in {0, 5}}

\* CompilerQualityEvaluator._evaluate_micro_fix_clarity
micro_fix_clarity_scores == {20 - count : count \in {0, 8, 15}}

\* CompilerQualityEvaluator._evaluate_real_world_integration
real_world_integration_scores ==
    {15 - section - examples : section \in {0, 7}, examples \in {0, 5}}

\* CompilerQualityEvaluator._evaluate_reflective_depth: the 3 for a missing
\* question is taken only when there is a reflection section
reflective_depth_scores ==
    {15 - prompts - reflection : prompts \in {0, 7}, reflection \in {0, 3, 5}}

\* NarrativeQualityEvaluator._evaluate_technical_preservation
narrative_technical_preservation_scores ==
    {Max(0, 30 - Min(10, 2 * missing) - code - terms) :
        missing \in 0..5, code \in {0, 5}, terms \in {0, 5}}

\* NarrativeQualityEvaluator._evaluate_complexity_alignment
complexity_alignment_scores ==
    {20 - length - reasoning : length \in {0, 10, 5}, reasoning \in {0, 5}}

\* NarrativeQualityEvaluator._evaluate_scenario_quality
scenario_quality_scores ==
    {20 - character - problem - solution :
        character \in {0, 7}, problem \in {0, 7}, solution \in {0, 6}}

\* NarrativeQualityEvaluator._evaluate_aha_moment
aha_moment_scores == {20 - count : count \in {0, 8, 15}}

\* NarrativeQualityEvaluator._evaluate_narrative_flow
narrative_flow_scores ==
    {10 - paragraphs - transitions : paragraphs \in {0, 3}, transitions \in {0, 2}}

\* AethelgardQualityEvaluator._evaluate_brand_voice
brand_voice_scores ==
    {25 - honesty - reflection - clarity :
        honesty \in {0, 4, 8}, reflection \in {0, 8}, clarity \in {0, 4, 9}}

\* AethelgardQualityEvaluator._evaluate_keyword_integration
keyword_integration_scores ==
    {20 - metadata - quick_answer - terms :
        metadata \in {0, 8}, quick_answer \in {0, 7}, terms \in {0, 5}}

\* AethelgardQualityEvaluator._evaluate_rag_structure
rag_structure_scores ==
    {20 - headers - related - paragraphs - code :
        headers \in {0, 7}, related \in {0, 6}, paragraphs \in {0, 4}, code \in {0, 3}}

\* AethelgardQualityEvaluator._evaluate_quality_preservation
quality_preservation_scores ==
    {20 - length - citations - code :
        length \in {0, 5}, citations \in {0, 8}, code \in {0, 7}}

\* AethelgardQualityEvaluator._evaluate_uniqueness
uniqueness_scores ==
    {15 - character - storytelling - language :
        character \in {0, 5}, storytelling \in {0, 5}, language \in {0, 5}}

EvaluatorNames == {"compiler", "narrative", "aethelgard"}

\* the five criterion scores an evaluator can compute for one text
CriterionScores(evaluator) ==
    IF evaluator = "compiler"
    THEN compiler_technical_preservation_scores \X psw_structure_scores
         \X micro_fix_clarity_scores \X real_world_integration_scores
         \X reflective_depth_scores
    ELSE IF evaluator = "narrative"
    THEN narrative_technical_preservation_scores \X complexity_alignment_scores
         \X scenario_quality_scores \X aha_moment_scores \X narrative_flow_scores
    ELSE brand_voice_scores \X keyword_integration_scores \X rag_structure_scores
         \X quality_preservation_scores \X uniqueness_scores

EvaluatorsInit ==
    /\ settings = Cfg(FALSE, FALSE, TRUE, FALSE)
    /\ node = "evaluate_narrative"
    /\ st = initial_state
    /\ steps = 0
    /\ runs = [x \in GatedStages |-> 0]
    /\ route = "start"
    /\ triggers = {}
    /\ response = NoResponseYet
    /\ \E evaluator \in EvaluatorNames :
       \E scores \in CriterionScores(evaluator) :
          rp = [phase |-> "ready", evaluator |-> evaluator, scores |-> scores]

Evaluated(report) ==
    rp' = [phase |-> "evaluated", evaluator |-> rp.evaluator, scores |-> rp.scores,
           passed |-> report.passed, total_score |-> report.total_score,
           feedback |-> report.feedback]

\* CompilerQualityEvaluator.evaluate
call_compiler_evaluate ==
    /\ rp.phase = "ready" /\ rp.evaluator = "compiler"
    /\ Evaluated(compiler_evaluate(rp.scores[1], rp.scores[2], rp.scores[3],
                                   rp.scores[4], rp.scores[5]))
    /\ UNCHANGED orchVars

\* NarrativeQualityEvaluator.evaluate
call_narrative_evaluate ==
    /\ rp.phase = "ready" /\ rp.evaluator = "narrative"
    /\ Evaluated(narrative_evaluate(rp.scores[1], rp.scores[2], rp.scores[3],
                                    rp.scores[4], rp.scores[5]))
    /\ UNCHANGED orchVars

\* AethelgardQualityEvaluator.evaluate
call_aethelgard_evaluate ==
    /\ rp.phase = "ready" /\ rp.evaluator = "aethelgard"
    /\ Evaluated(aethelgard_evaluate(rp.scores[1], rp.scores[2], rp.scores[3],
                                     rp.scores[4], rp.scores[5]))
    /\ UNCHANGED orchVars

EvaluatorsNext ==
    call_compiler_evaluate \/ call_narrative_evaluate \/ call_aethelgard_evaluate

SpecEvaluators == EvaluatorsInit /\ [][EvaluatorsNext]_vars

(***************************************************************************)
(* The rewrite loop of the generation stage with the dictionaries its      *)
(* nodes return: generate, evaluate_quality, _evaluation_decision,         *)
(* rewrite_content                                                         *)
(***************************************************************************)
\* state.get("revision_feedback") of a state without the key
NoRevisionFeedback == [present |-> FALSE, items |-> <<>>]

\* a state dictionary: the channels and the key revision_feedback
StateDict(state, revision_feedback) ==
    [channels |-> state, revision_feedback |-> revision_feedback]

\* the feedback _generate_answer puts into its prompt
revision_suffix(state_dict) ==
    IF state_dict.revision_feedback.present THEN state_dict.revision_feedback.items
    ELSE <<>>

\* the dictionary _generate_answer returns: answer and citations set,
\* revision_feedback and evaluation popped
generate_answer_returned(state_dict, answer) ==
    [channels |-> [state_dict.channels EXCEPT
                       !.answer = answer,
                       !.citations = format_documents(state_dict.channels.documents)
                                     \o format_web_results(state_dict.channels.web_results),
                       !.evaluation = NoEvaluation],
     revision_feedback |-> NoRevisionFeedback]

\* updated_state of _rewrite_answer
rewrite_updated_state(state) ==
    StateDict([state EXCEPT !.retry_count = @ + 1],
              [present |-> TRUE, items |-> state.evaluation.feedback])

\* _rewrite_answer returning the evaluation it was given
rewrite_answer_returned_with_evaluation(state, answer) ==
    [generate_answer_returned(rewrite_updated_state(state), answer)
        EXCEPT !.channels.evaluation = state.evaluation]

\* the dictionary _rewrite_answer returns
rewrite_answer_returned(state, answer) ==
    [generate_answer_returned(rewrite_updated_state(state), answer)
        EXCEPT !.channels.evaluation = NoEvaluation]

\* LangGraph: the keys of the returned dictionary are written to their
\* channels, a channel whose key is missing keeps its value
write_channels(state, returned) ==
    [returned.channels EXCEPT
        !.evaluation = IF returned.channels.evaluation.present
                       THEN returned.channels.evaluation ELSE state.evaluation]

RewriteInit ==
    /\ settings = Cfg(FALSE, FALSE, FALSE, FALSE)
    /\ node = "generate"
    /\ \E results \in SeqsUpTo(Chunks, MaxDocs) :
          st = [initial_state EXCEPT !.documents = retrieve_documents_internal(results)]
    /\ steps = 0
    /\ runs = [x \in GatedStages |-> 0]
    /\ route = "start"
    /\ triggers = {}
    /\ response = NoResponseYet
    /\ rp = [returned_by |-> "none", returned |-> StateDict(st, NoRevisionFeedback),
             prompt_feedback |-> <<>>, failed_feedback |-> <<>>, judged |-> 0]

RewriteStep(target, label) ==
    /\ node' = target
    /\ route' = label
    /\ steps' = steps + 1
    /\ UNCHANGED <<settings, response, triggers>>

rw_generate ==
    /\ CanStep("generate")
    /\ Ran("generate")
    /\ \E answer \in ModelOutputs("generate", runs'["generate"],
                                  format_documents(st.documents)
                                  \o format_web_results(st.web_results), {FALSE}) :
          LET state_dict == StateDict(st, NoRevisionFeedback)
              returned == generate_answer_returned(state_dict, answer)
          IN /\ st' = write_channels(st, returned)
             /\ rp' = [rp EXCEPT !.returned_by = "generate", !.returned = returned,
                                 !.prompt_feedback = revision_suffix(state_dict)]
    /\ RewriteStep("evaluate_quality", "edge")

rw_evaluate_quality ==
    /\ CanStep("evaluate_quality")
    /\ \E report \in TechnicalReports :
          /\ st' = evaluate_answer(st, report)
          /\ rp' = [rp EXCEPT !.returned_by = "evaluate_quality",
                              !.returned = StateDict(st', NoRevisionFeedback),
                              !.failed_feedback = IF report.passed THEN @
                                                  ELSE report.feedback,
                              !.judged = runs["generate"]]
    /\ LET decision == evaluation_decision(st')
       IN RewriteStep(IF decision = "rewrite" THEN "rewrite_content" ELSE "END", decision)
    /\ UNCHANGED runs

rw_rewrite_content ==
    /\ CanStep("rewrite_content")
    /\ Ran("generate")
    /\ \E answer \in ModelOutputs("generate", runs'["generate"],
                                  format_documents(st.documents)
                                  \o format_web_results(st.web_results), {FALSE}) :
          LET returned == rewrite_answer_returned(st, answer)
          IN /\ st' = write_channels(st, returned)
             /\ rp' = [rp EXCEPT !.returned_by = "rewrite_content", !.returned = returned,
                                 !.prompt_feedback =
                                     revision_suffix(rewrite_updated_state(st))]
    /\ RewriteStep("evaluate_quality", "edge")

RewriteNext == rw_generate \/ rw_evaluate_quality \/ rw_rewrite_content

SpecRewrite == RewriteInit /\ [][RewriteNext]_vars

(***************************************************************************)
(* _format_response on its own: the three answer keys of the final state   *)
(* are each missing, empty or a text                                       *)
(***************************************************************************)
FinalTexts ==
    {Absent, EmptyStr} \cup
    {Text(by, 1, {}, FALSE) : by \in {"generate", "compile", "agent_4"}}

FormatInit ==
    /\ settings = Cfg(TRUE, TRUE, FALSE, TRUE)
    /\ node = "END"
    /\ \E answer \in FinalTexts, compiled_answer \in FinalTexts,
          enriched_answer \in FinalTexts :
          st = [initial_state EXCEPT !.answer = answer,
                                     !.compiled_answer = compiled_answer,
                                     !.enriched_answer = enriched_answer]
    /\ steps = 0
    /\ runs = [x \in GatedStages |-> 0]
    /\ route = "edge"
    /\ triggers = {}
    /\ response = NoResponseYet
    /\ rp = NoRepairCall

SpecFormat == FormatInit /\ [][chat_query]_vars

(***************************************************************************)
(* Properties                                                              *)
(***************************************************************************)
\* a graph step has just left node n
Leaves(n) == node = n /\ steps' = steps + 1

HardFloors == {"compiler", "narrative", "brand"}

\* the stage whose output a gate judged
FailingStage(gate) ==
    IF gate = "compiler" THEN "compile" ELSE IF gate = "narrative" THEN "story" ELSE "polish"

maxRetries ==
    [x \in GatedStages |->
        IF x = "generate" THEN 5
        ELSE IF x \in {"compile", "synthesis", "structure"} THEN 2
        ELSE 1]

\* C1: in every configuration, the producing step of every gated stage
\* (generate, compile, synthesis, structure, story, polish) runs at most
\* maxRetries + 1 times within one run.
C1_RetryBound == \A x \in GatedStages : runs[x] <= maxRetries[x] + 1

\* C2: every run reaches its terminal state and the caller receives a final
\* state: no run is ended by the recursion limit and no caller receives an
\* error in place of a final state.
C2_RunReachesTerminalState == node # "ERROR" /\ response.status # "error"

\* C3: when a hard-floor criterion was below its floor at some evaluation of
\* the run, the final state carries the abort marker and a reason, and the
\* delivered answer is not the output of the stage that failed.
C3_AbortInvariant ==
    (response.status = "ok" /\ triggers \cap HardFloors # {}) =>
        /\ st.enrichment_aborted
        /\ st.abort_reason # "none"
        /\ \A gate \in triggers \cap HardFloors :
              response.answer.by # FailingStage(gate)

\* C4: once a gate decided abort the run is over, and the answer delivered
\* to the caller is not the output of the stage that failed its gate.
C4_AbortIrrevocable ==
    route = "abort" =>
        /\ node = "END"
        /\ response.status = "ok" => response.answer.by \notin {"story", "polish"}

\* C5: at every evaluation gate, a report that is not passed and has
\* feedback, with the stage's retry counter below its maximum (and no abort
\* trigger), routes back to the stage, and the retry raises the counter by
\* exactly one; the compile gate does so whatever the total score is.
C5_RetryTransition ==
    [][ /\ (Leaves("evaluate_quality") /\ ~st'.evaluation.passed
               /\ st'.evaluation.feedback # <<>> /\ st'.retry_count < 5)
            => node' = "rewrite_content"
        /\ Leaves("rewrite_content") => st'.retry_count = st.retry_count + 1
        /\ (Leaves("evaluate_compiler") /\ ~st'.compiler_evaluation.passed
               /\ st'.compiler_evaluation.feedback # <<>> /\ st'.compiler_retry_count < 2)
            => node' = "recompile"
        /\ Leaves("recompile") => st'.compiler_retry_count = st.compiler_retry_count + 1
        /\ (Leaves("evaluate_narrative") /\ ~st'.narrative_evaluation.passed
               /\ st'.narrative_evaluation.technical_preservation >= 25
               /\ st'.narrative_evaluation.feedback # <<>> /\ st'.story_retry_count < 1)
            => node' = "regenerate_story"
        /\ Leaves("regenerate_story") => st'.story_retry_count = st.story_retry_count + 1
        /\ (Leaves("evaluate_aethelgard") /\ ~st'.aethelgard_evaluation.passed
               /\ "degraded" \notin triggers'
               /\ st'.aethelgard_evaluation.feedback # <<>> /\ st'.polish_retry_count < 1)
            => node' = "repolish"
        /\ Leaves("repolish") => st'.polish_retry_count = st.polish_retry_count + 1
      ]_vars

\* the gates that never abort: a passed report, or a failed one with the
\* retries used up, moves on to the next stage with the text as it is
AdvancesWithoutAbortGates ==
    /\ (Leaves("agent_1_synthesize")
           /\ (st'.gate_1_result.passed \/ st'.synthesis_retry_count >= 2))
        => node' = "agent_2_structure"
    /\ (Leaves("agent_2_structure")
           /\ (st'.gate_2_result.passed \/ st'.structure_retry_count >= 2))
        => node' \in {"prepare_compiler", "END"} /\ route' = "compiler"
    /\ (Leaves("evaluate_quality")
           /\ (st'.evaluation.passed \/ st'.retry_count >= 5))
        => /\ node' \in {"create_scenario", "compile_technical", "enrich_narrative", "END"}
           /\ route' \in {"done", "enrich"}
           /\ st'.answer = st.answer
    /\ (Leaves("evaluate_compiler")
           /\ (st'.compiler_evaluation.passed \/ st'.compiler_retry_count >= 2))
        => /\ node' \in {"agent_4_enrich", "END"}
           /\ route' = "done"
           /\ st'.compiled_answer = st.compiled_answer

\* the narrative gate, whose abort trigger is technical preservation under 25
AdvancesNarrativeGate ==
    (Leaves("evaluate_narrative")
        /\ st'.narrative_evaluation.technical_preservation >= 25
        /\ (st'.narrative_evaluation.passed \/ st'.story_retry_count >= 1))
    => /\ node' = "apply_polish"
       /\ route' = "continue"
       /\ st'.story_content = st.story_content

\* the brand gate when the polished text's technical score did not fall
\* more than the tolerance below the baseline
AdvancesBrandGateUndegraded ==
    (Leaves("evaluate_aethelgard")
        /\ "degraded" \notin triggers'
        /\ (st'.aethelgard_evaluation.passed \/ st'.polish_retry_count >= 1))
    => /\ node' = "END"
       /\ route' = "done"
       /\ st'.enriched_answer = st.enriched_answer

\* C6 as stated: a failed evaluation with the retries used up and no abort
\* trigger advances with the latest attempt, and an evaluation that passed
\* always advances, at every gate.
C6_PassedAlwaysAdvances ==
    [][ /\ AdvancesWithoutAbortGates
        /\ AdvancesNarrativeGate
        /\ AdvancesBrandGateUndegraded
        /\ (Leaves("evaluate_aethelgard") /\ st'.aethelgard_evaluation.passed)
            => node' = "END" /\ route' = "done"
      ]_vars

\* C6, amended: a failed evaluation with the retries used up, and a passed
\* evaluation, advance to the next stage with the latest attempt, without
\* abort and without another retry, unless the gate's abort trigger fired:
\* technical preservation under 25 at the narrative gate, the technical
\* score of the polished text more than the tolerance under the baseline at
\* the brand gate (which aborts a passed brand evaluation too).
C6_GracefulDegradation ==
    [][ /\ AdvancesWithoutAbortGates
        /\ AdvancesNarrativeGate
        /\ AdvancesBrandGateUndegraded
      ]_vars

\* a run that moved on to polishing with a story that failed its second
\* evaluation, and a run that finished with a polish that failed twice
C6_Witness ==
    \/ /\ node = "apply_polish"
       /\ st.story_retry_count = 1
       /\ ~st.narrative_evaluation.passed
       /\ st.narrative_evaluation.technical_preservation >= 25
    \/ /\ node = "END" /\ route = "done"
       /\ st.polish_retry_count = 1
       /\ st.aethelgard_evaluation.present /\ ~st.aethelgard_evaluation.passed

\* whether the repair can place citation_id: its origin sentence exists and
\* shares a key term with a sentence of the compiled text
Matchable(compiled, technical_answer, citation_id) ==
    LET source_sentence ==
            SourceSentence(SplitSentences(technical_answer), CitationTag(citation_id))
        sentences == SplitSentences(compiled)
    IN /\ source_sentence # ""
       /\ \E k \in 1..Len(sentences) :
             MatchScore(sentences[k], KeyTerms(source_sentence)) > 0

\* C7: every required ID that is missing from the transformed text and whose
\* origin sentence shares a key term with a sentence of it has its marker in
\* the returned text, also when several IDs are missing in one call.
C7_RepairRecoversMatchable ==
    rp.phase = "returned" =>
        \A k \in 1..Len(rp.missing_citations) :
            LET citation_id == rp.missing_citations[k] IN
            (/\ ~Contains(rp.compiled, CitationTag(citation_id))
             /\ Matchable(rp.compiled, rp.technical_answer, citation_id))
            => ~rp.raised /\ Contains(rp.text, CitationTag(citation_id))

\* C8: for every source text, transformed text and non-empty list of missing
\* IDs the repair returns a text; it never raises.
C8_RepairNeverRaises ==
    (rp.phase = "returned" /\ rp.missing_citations # <<>>) => ~rp.raised

\* C9: the markers of the answer delivered by a finished run are all IDs of
\* the citations list of the state.
C9_CitationSuperset ==
    response.status = "ok" =>
        response.answer.cites \subseteq CitationIds(response.citations)

\* position of the first result with this URL
FirstIndex(all_results, url) ==
    CHOOSE i \in 1..Len(all_results) :
        /\ all_results[i].url = url
        /\ \A j \in 1..(i - 1) : all_results[j].url # url

\* C10: for n retrieved documents and m web results the citations list is
\* doc-1..doc-n in retrieval order, then web-1..web-m in the order in which
\* the distinct URLs first occur in the search results, all IDs distinct,
\* and the same list after every rewrite.
C10_CitationIdsDeterministic ==
    runs["generate"] >= 1 =>
        LET n == Len(rp.results)
            distinct_urls == {rp.all_results[i].url : i \in 1..Len(rp.all_results)} \ {""}
            m == Min(tavily_results, Cardinality(distinct_urls))
            web(j) == st.citations[n + j]
        IN /\ Len(st.citations) = n + m
           /\ \A i \in 1..n :
                 /\ st.citations[i].id = <<"doc", i>>
                 /\ st.citations[i].source = rp.results[i]
           /\ \A j \in 1..m :
                 /\ web(j).id = <<"web", j>>
                 /\ web(j).source \in distinct_urls
           /\ \A j, k \in 1..m :
                 j < k => FirstIndex(rp.all_results, web(j).source)
                            < FirstIndex(rp.all_results, web(k).source)
           /\ \A i, j \in 1..(n + m) :
                 i # j => st.citations[i].id # st.citations[j].id

\* a list with two documents and two web results, regenerated by a rewrite
C10_Witness ==
    /\ runs["generate"] >= 2
    /\ st.retry_count >= 1
    /\ Len(rp.results) = 2
    /\ Len(rp.all_results) = 3
    /\ Len(st.web_results) = 2
    /\ Len(st.citations) = 4


\* C11: the list the tiered search returns holds no two entries with the
\* same URL, whatever the executed tier searches returned.
C11_NoDuplicateUrls ==
    rp.phase = "searched" =>
        \A i, j \in 1..Len(rp.final_results) :
            i # j => rp.final_results[i].url # rp.final_results[j].url

\* a URL that two tiers returned, and a non-empty result list
C11_Witness ==
    /\ rp.phase = "searched"
    /\ Len(rp.outcomes) >= 2
    /\ \E i \in 1..Len(rp.outcomes[1].results), j \in 1..Len(rp.outcomes[2].results) :
          /\ rp.outcomes[1].results[i].url = rp.outcomes[2].results[j].url
          /\ rp.outcomes[1].results[i].url # ""
    /\ rp.final_results # <<>>

\* the results of the executed tiers, tier 1 first, each entry with its tier;
\* a failed tier has none
TierEntries(outcomes) ==
    LET n == Len(outcomes)
        tier_name(k) == IF k = 1 THEN "tier_1" ELSE IF k = 2 THEN "tier_2" ELSE "tier_3"
        count(k) == IF outcomes[k].ok THEN Len(outcomes[k].results) ELSE 0
        before(k) == IF k = 1 THEN 0
                     ELSE IF k = 2 THEN count(1)
                     ELSE count(1) + count(2)
        total == IF n = 0 THEN 0 ELSE before(n) + count(n)
        tier_of(p) == CHOOSE k \in 1..n : before(k) < p /\ p <= before(k) + count(k)
    IN [p \in 1..total |->
          [url |-> outcomes[tier_of(p)].results[p - before(tier_of(p))].url,
           priority_tier |-> tier_name(tier_of(p))]]

\* the entries of a list at the positions of `keep`, in their order
RECURSIVE EntriesAt(_, _, _)
EntriesAt(entries, keep, p) ==
    IF p > Len(entries) THEN <<>>
    ELSE (IF p \in keep THEN <<entries[p]>> ELSE <<>>) \o EntriesAt(entries, keep, p + 1)

\* C12 as stated: the output is the tier results in tier order with every
\* later duplicate of an already-seen URL removed, cut to max_results.
C12_MergeOrderAsStated ==
    rp.phase = "searched" =>
        LET entries == TierEntries(rp.outcomes)
            first_of_url == {p \in 1..Len(entries) :
                                \A q \in 1..(p - 1) : entries[q].url # entries[p].url}
        IN rp.final_results = Take(EntriesAt(entries, first_of_url, 1), rp.max_results)

\* C12, amended: the output is the tier results in tier order, without the
\* entries that have no URL and without every later duplicate of an
\* already-seen URL, cut to the first max_results entries; it is never longer
\* than max_results.
C12_MergeOrder ==
    rp.phase = "searched" =>
        LET entries == TierEntries(rp.outcomes)
            kept == {p \in 1..Len(entries) :
                        /\ entries[p].url # ""
                        /\ \A q \in 1..(p - 1) : entries[q].url # entries[p].url}
        IN /\ rp.final_results = Take(EntriesAt(entries, kept, 1), rp.max_results)
           /\ Len(rp.final_results) <= rp.max_results

\* tier 2 repeats a URL of tier 1 and adds one, and max_results cuts the list
C12_Witness ==
    /\ rp.phase = "searched"
    /\ rp.depth = "deep"
    /\ rp.max_results = 1
    /\ rp.outcomes[1].ok /\ rp.outcomes[2].ok
    /\ Len(rp.outcomes[1].results) = 1 /\ Len(rp.outcomes[2].results) = 2
    /\ rp.outcomes[1].results[1].url = "u1"
    /\ rp.outcomes[2].results[1].url = "u1"
    /\ rp.outcomes[2].results[2].url = "u2"
    /\ Len(rp.final_results) = 1
    /\ rp.final_results[1].priority_tier = "tier_1"


\* the URLs the web results of a run must carry, given what each tier search
\* of the run answered
ExpectedWebUrls ==
    LET entries == TierEntries(rp.outcomes)
        kept == {p \in 1..Len(entries) :
                    /\ entries[p].url # ""
                    /\ \A q \in 1..(p - 1) : entries[q].url # entries[p].url}
        merged == Take(EntriesAt(entries, kept, 1), depth_tavily_results(rp.research_mode))
    IN [i \in 1..Len(merged) |-> merged[i].url]

WebUrls(web_results) == [i \in 1..Len(web_results) |-> web_results[i].url]

SomeTierFailed == \E k \in 1..Len(rp.outcomes) : ~rp.outcomes[k].ok

WebSearchDone == rp.web_pc = ResearchTiers + 1

\* C13: a failing tier search contributes no result and the remaining tiers
\* are still searched: once a tier has failed the web search goes on to its
\* end, every tier of the depth has then been searched, and the web results
\* are those of the tiers that answered (none at worst); the research stage
\* never fails because of a tier, and it hands these web results on as soon
\* as retrieval is done too.
C13_TierFailureIsolated ==
    /\ [](WebSearchDone =>
            /\ Len(rp.outcomes) = ResearchTiers
            /\ WebUrls(rp.web_results) = ExpectedWebUrls)
    /\ [](rp.phase = "raised" => rp.rag_pc = "raised")
    /\ [](rp.phase = "joined" /\ rp.web_pc > 0 =>
            WebSearchDone /\ WebUrls(st.web_results) = ExpectedWebUrls)
    /\ (SomeTierFailed ~> WebSearchDone)
    /\ (SomeTierFailed /\ WebSearchDone /\ rp.rag_pc = "done" ~> node # "research")

\* the first tier failed, a later one answered, and the next stage has the
\* later tier's results
C13_Witness ==
    /\ rp.phase = "joined"
    /\ Len(rp.outcomes) >= 2
    /\ ~rp.outcomes[1].ok
    /\ rp.outcomes[2].ok
    /\ node \in {"generate", "agent_1_synthesize"}
    /\ Len(st.web_results) = 2

\* C14: a failure of the embedding call, of the vector search or of a chat
\* completion never takes the run out of the graph with an exception.
C14_ProviderErrorsContained ==
    node # "ERROR"

\* C20: with web search enabled, the stage after research starts only when
\* retrieval and web search have both ended, and the state it receives holds
\* the documents of the one and the web results of the other.
C20_FanInJoin ==
    (/\ rp.phase \in {"joined", "model_raised"}
     /\ rp.always_use_tavily /\ rp.tavily_research) =>
        /\ rp.rag_pc = "done"
        /\ WebSearchDone
        /\ st.documents = rp.documents
        /\ st.web_results = rp.web_results

\* the two coroutines advanced in turns, and the next stage holds a document
\* and web results
C20_Witness ==
    /\ rp.phase = "joined"
    /\ rp.always_use_tavily /\ rp.tavily_research
    /\ rp.overlapped
    /\ node \in {"generate", "agent_1_synthesize"}
    /\ st.documents # <<>>
    /\ st.web_results # <<>>


\* the criteria each rubric marks CRITICAL, with the score under which the
\* evaluator reports them as such
CompilerFloorsMet(report) ==
    report.technical_preservation >= 28 /\ report.micro_fix_clarity >= 15

NarrativeFloorsMet(report) ==
    report.technical_preservation >= 25 /\ report.aha_moment >= 15

BrandFloorsMet(report) == report.brand_voice >= 20

\* C15: no report of the compiler, narrative or brand evaluator has passed
\* set while one of its hard-floor criteria is under its floor.
C15_HardFloorsForceFailure ==
    /\ st.compiler_evaluation.present /\ st.compiler_evaluation.passed
           => CompilerFloorsMet(st.compiler_evaluation)
    /\ st.narrative_evaluation.present /\ st.narrative_evaluation.passed
           => NarrativeFloorsMet(st.narrative_evaluation)
    /\ st.aethelgard_evaluation.present /\ st.aethelgard_evaluation.passed
           => BrandFloorsMet(st.aethelgard_evaluation)

\* C16: in every report the total is the sum of the criterion scores, and
\* passed is set exactly when the total reaches the rubric's threshold (85,
\* 95, 80, 85) and every floor-bearing criterion reaches its floor.
C16_ReportConsistency ==
    /\ st.evaluation.present =>
          (st.evaluation.passed <=> st.evaluation.total_score >= 85)
    /\ st.compiler_evaluation.present =>
          LET r == st.compiler_evaluation
          IN /\ r.total_score = r.technical_preservation + r.psw_structure
                                + r.micro_fix_clarity + r.real_world_integration
                                + r.reflective_depth
             /\ r.passed <=> (r.total_score >= 95 /\ CompilerFloorsMet(r))
    /\ st.narrative_evaluation.present =>
          LET r == st.narrative_evaluation
          IN /\ r.total_score = r.technical_preservation + r.complexity_alignment
                                + r.scenario_quality + r.aha_moment + r.narrative_flow
             /\ r.passed <=> (r.total_score >= 80 /\ NarrativeFloorsMet(r))
    /\ st.aethelgard_evaluation.present =>
          LET r == st.aethelgard_evaluation
          IN /\ r.total_score = r.brand_voice + r.keyword_integration + r.rag_structure
                                + r.final_quality + r.uniqueness
             /\ r.passed <=> (r.total_score >= 85 /\ BrandFloorsMet(r))


RetryCounters ==
    {"retry_count", "synthesis_retry_count", "structure_retry_count",
     "compiler_retry_count", "story_retry_count", "polish_retry_count"}

\* the most retries each counter's gate grants
CounterMaximum(counter) ==
    IF counter = "retry_count" THEN 5
    ELSE IF counter \in {"story_retry_count", "polish_retry_count"} THEN 1
    ELSE 2

\* C17: over a run no retry counter ever decreases (a passed evaluation
\* included), and none exceeds its stage's maximum: 5 for retry_count, 2 for
\* the synthesis, structure and compiler counters, 1 for the story and
\* polish counters.
C17_CountersMonotoneAndBounded ==
    /\ [](\A counter \in RetryCounters : st[counter] <= CounterMaximum(counter))
    /\ [][\A counter \in RetryCounters : st'[counter] >= st[counter]]_vars

\* a rewritten answer passed its evaluation and the counter stands
C17_Witness ==
    /\ st.retry_count >= 1
    /\ st.evaluation.present /\ st.evaluation.passed
    /\ st.compiler_retry_count = 2


\* the content entries of the state, and the nodes whose stage owns each
ContentEntries ==
    {"answer", "synthesis_output", "structured_output", "compiled_answer",
     "story_content", "enriched_answer"}

EntryWriters(entry) ==
    IF entry = "answer" THEN {"generate", "rewrite_content"}
    ELSE IF entry = "synthesis_output" THEN {"agent_1_synthesize"}
    ELSE IF entry = "structured_output" THEN {"agent_2_structure"}
    ELSE IF entry = "compiled_answer" THEN {"compile_technical", "recompile"}
    ELSE IF entry = "story_content" THEN {"create_story", "regenerate_story"}
    ELSE {"agent_4_enrich", "apply_polish", "repolish", "enrich_narrative"}

\* C18: a stage changes no content entry but its own; the structure,
\* compiler-preparation, compile and enrichment stages leave the answer entry
\* of generation as it is.
C18_StageContentWriteOnce ==
    [][\A entry \in ContentEntries :
          st'[entry] # st[entry] => node \in EntryWriters(entry)]_vars

\* C19: a gate decision function leaves the state it is given as it was: the
\* state the brand gate's decision function holds when it returns equals the
\* state it received.
C19_ImmutableUpdate ==
    [][Leaves("evaluate_aethelgard") =>
          \A final_quality \in FinalQualityScores :
              aethelgard_decision(st', final_quality) = route'
                  => aethelgard_decision_writes(st', final_quality) = st']_vars


\* C21: research mode quick, standard, deep gives retrieval the document
\* limit 10, 15, 20 and the web search the limit 5, 5, 10, and the web search
\* goes through tier 1, tiers 1-2, tiers 1-3, in this order and no other.
C21_DepthProfiles ==
    LET mode == rp.research_mode
        tiers == IF mode = "quick" THEN <<"tier_1">>
                 ELSE IF mode = "standard" THEN <<"tier_1", "tier_2">>
                 ELSE <<"tier_1", "tier_2", "tier_3">>
    IN /\ rp.phase # "ready" =>
             rp.rag_limit = (IF mode = "quick" THEN 10 ELSE IF mode = "standard" THEN 15 ELSE 20)
       /\ rp.web_pc > 0 =>
             /\ rp.max_results = (IF mode = "deep" THEN 10 ELSE 5)
             /\ Len(rp.searched) <= Len(tiers)
             /\ rp.searched = SubSeq(tiers, 1, Len(rp.searched))
             /\ WebSearchDone => rp.searched = tiers

\* a deep research whose web search has gone through its three tiers
C21_Witness ==
    /\ rp.research_mode = "deep"
    /\ rp.phase = "joined"
    /\ Len(rp.searched) = 3
    /\ rp.max_results = 10


\* C22: the web-search decision depends on the retrieved documents alone: it
\* is web_search when there is no document, or when there are fewer than 2
\* and the best similarity distance is over 0.5, and answer in every other
\* case.
C22_LegacyFallbackRule ==
    rp.phase = "decided" =>
        LET n == Len(st.documents)
            insufficient ==
                \/ n = 0
                \/ n < 2 /\ \A i \in 1..n : st.documents[i].score > 50
        IN route = (IF insufficient THEN "web_search" ELSE "answer")

\* one document, just over the distance 0.5: web search
C22_Witness ==
    /\ rp.phase = "decided"
    /\ Len(st.documents) = 1
    /\ st.documents[1].score = 51
    /\ route = "web_search"


StageEvents(events) == SubSeq(events, 2, Len(events) - 1)

\* C24: a finished stream holds one event for each stage that completed, in
\* the order the stages ran, and one done event, which is its last event.
C24_ProgressEventStream ==
    rp.phase = "finished" =>
        LET stage_events == StageEvents(rp.events)
        IN /\ Len(stage_events) = Len(rp.executed)
           /\ \A i \in 1..Len(stage_events) : stage_events[i].node = rp.executed[i]
           /\ rp.events[Len(rp.events)].type = "done"
           /\ \A i \in 1..(Len(rp.events) - 1) : rp.events[i].type # "done"


\* C25: get_chat_model called for a provider with a secret token that was
\* stored for a different provider ends in ProviderConfigurationError and
\* returns no model.
C25_SecretMismatchRejected ==
    (/\ rp.phase = "returned"
     /\ rp.stored_for # "none"
     /\ rp.stored_for # rp.provider) =>
        rp.result = "ProviderConfigurationError"


\* C26: should_enrich answers False exactly for a BASIC question whose
\* quality score is at or above the threshold; a BASIC question under the
\* threshold and every STANDARD or COMPLEX question get True, whatever the
\* score.
C26_EnrichmentRouting ==
    rp.phase = "returned" =>
        (rp.result = FALSE
            <=> (rp.complexity = "basic" /\ rp.quality_score >= rp.quality_threshold))

\* a BASIC question with the score on the threshold is not enriched
C26_Witness ==
    /\ rp.phase = "returned"
    /\ rp.complexity = "basic"
    /\ rp.quality_score = rp.quality_threshold
    /\ rp.result = FALSE


\* the retry decisions of the gates that follow their stage as an edge, each
\* with the node it routes back to and the counter of that stage
GateRetryRoutes ==
    { <<"retry_agent_1", "agent_1_synthesize", "synthesis_retry_count">>,
      <<"retry_agent_2", "agent_2_structure", "structure_retry_count">> }

\* the retry decisions of the evaluation gates, with node and counter
EvaluationRetryRoutes ==
    { <<"rewrite", "rewrite_content", "retry_count">>,
      <<"recompile", "recompile", "compiler_retry_count">>,
      <<"regenerate", "regenerate_story", "story_retry_count">>,
      <<"repolish", "repolish", "polish_retry_count">> }

\* C27: a gate never decides retry twice on the same value of the stage's
\* retry counter: when it has routed back to the stage and decides retry
\* again after the stage has run, the counter is larger than it was, and a
\* stage re-run on the order of an evaluation gate leaves the counter larger.
C27_RetryMakesProgress ==
    [][/\ \A r \in GateRetryRoutes :
             (route = r[1] /\ Leaves(r[2]) /\ route' = r[1]) => st'[r[3]] > st[r[3]]
       /\ \A r \in EvaluationRetryRoutes :
             (route = r[1] /\ Leaves(r[2])) => st'[r[3]] > st[r[3]]]_vars


\* C28: when the brand gate found the polished text's technical score more
\* than the tolerance under the baseline, no repolish follows and the run is
\* over, and its final state has enrichment_aborted set, an abort reason and
\* the technical answer as enriched_answer, which is the answer delivered.
C28_QualityDegradationAbort ==
    "degraded" \in triggers =>
        /\ node = "END"
        /\ st.enrichment_aborted
        /\ st.abort_reason # "none"
        /\ st.enriched_answer = st.answer
        /\ response.status = "ok" => response.answer = st.answer

\* a text without the tags of the listed IDs
RECURSIVE WithoutTags(_, _)
WithoutTags(text, citation_ids) ==
    IF citation_ids = <<>> THEN text
    ELSE WithoutTags(RemoveAll(text, CitationTag(Head(citation_ids))), Tail(citation_ids))

\* the words of a text: its tags and its white space dropped
BareText(text, citation_ids) ==
    RemoveAll(RemoveAll(WithoutTags(text, citation_ids), " "), "\n")

\* the IDs of the list whose tag the stripped response lacks
MissingFromResponse(response_content, citation_ids) ==
    SelectSeq(citation_ids,
              LAMBDA cid : ~Contains(Strip(response_content), CitationTag(cid)))

\* C29: when compile finds missing IDs, whether or not the repair can place
\* them, the text it returns is the model's compiled text, at most with
\* markers added; the compiled text is never discarded.
C29_RepairMissKeepsCompiledText ==
    (/\ rp.phase = "compiled"
     /\ MissingFromResponse(rp.compiled, rp.missing_citations) # <<>>)
    => BareText(rp.text, rp.missing_citations)
           = BareText(rp.compiled, rp.missing_citations)

\* the sentences of the transformed text that hold the largest number, above
\* zero, of the key terms, the earliest one only
BestSentences(sentences, key_terms) ==
    {k \in 1..Len(sentences) :
        /\ MatchScore(sentences[k], key_terms) > 0
        /\ \A m \in 1..Len(sentences) :
              MatchScore(sentences[m], key_terms) <= MatchScore(sentences[k], key_terms)
        /\ \A m \in 1..(k - 1) :
              MatchScore(sentences[m], key_terms) < MatchScore(sentences[k], key_terms)}

\* a sentence with the tag before its final '.', '!' or '?', at its end when
\* it has none
TagBeforeFinalMark(sentence, citation_tag) ==
    LET n == Len(sentence)
        last == IF n = 0 THEN "" ELSE SubSeq(sentence, n, n)
    IN IF last \in {".", "!", "?"}
       THEN SubSeq(sentence, 1, n - 1) \o " " \o citation_tag \o last
       ELSE sentence \o " " \o citation_tag

\* C30: a call with one missing ID whose origin sentence exists returns the
\* sentences of the transformed text, the marker put before the final mark of
\* the earliest sentence that holds the largest non-zero number of the origin
\* sentence's key terms; with no such sentence, or the marker already in it,
\* the sentences are returned as they are.
C30_SinglePlacement ==
    (rp.phase = "returned" /\ Len(rp.missing_citations) = 1) =>
        LET citation_tag == CitationTag(rp.missing_citations[1])
            source_sentence ==
                SourceSentence(SplitSentences(rp.technical_answer), citation_tag)
            sentences == SplitSentences(rp.compiled)
            best == BestSentences(sentences, KeyTerms(source_sentence))
            expected == [k \in 1..Len(sentences) |->
                            IF k \in best /\ ~Contains(sentences[k], citation_tag)
                            THEN TagBeforeFinalMark(sentences[k], citation_tag)
                            ELSE sentences[k]]
        IN source_sentence # "" =>
              /\ ~rp.raised
              /\ rp.text = JoinWithSpace(expected)

\* whether text from position i on is compiled from position j on with
\* nothing but " [id]" markers of the given tags put in
RECURSIVE OnlyMarkersAdded(_, _, _, _, _)
OnlyMarkersAdded(text, i, compiled, j, tags) ==
    IF i > Len(text) THEN j > Len(compiled)
    ELSE \/ /\ j <= Len(compiled)
            /\ Char(text, i) = Char(compiled, j)
            /\ OnlyMarkersAdded(text, i + 1, compiled, j + 1, tags)
         \/ \E t \in tags :
               /\ i + Len(t) <= Len(text)
               /\ SubSeq(text, i, i + Len(t)) = " " \o t
               /\ OnlyMarkersAdded(text, i + Len(t) + 1, compiled, j, tags)

\* the tags of a list of IDs
TagsOf(citation_ids) == {CitationTag(citation_ids[k]) : k \in 1..Len(citation_ids)}

\* C31: the text returned by the repair is, apart from the markers put in,
\* character for character the transformed text: white space, blank lines
\* and code between the sentences are kept.
C31_RepairKeepsEveryCharacter ==
    (rp.phase = "returned" /\ ~rp.raised) =>
        OnlyMarkersAdded(rp.text, 1, rp.compiled, 1, TagsOf(rp.missing_citations))

\* number of occurrences of needle in hay
CountOccurrences(hay, needle) ==
    Cardinality({i \in 1..(Len(hay) - Len(needle) + 1) :
                    SubSeq(hay, i, i + Len(needle) - 1) = needle})

\* the IDs the texts of the repair can mention
KnownCitationIds == {"doc-1", "doc-2", "web-9"}

\* C32: in the text returned by the repair, a marker whose ID is not in the
\* missing list occurs exactly as often as in the transformed text, and the
\* marker of an ID of the list as often or once more: no marker is removed,
\* none is put in for an ID nobody asked for, none is put in twice.
C32_RepairOnlyAddsRequestedMarkers ==
    (rp.phase = "returned" /\ ~rp.raised) =>
        \A citation_id \in KnownCitationIds :
            LET before == CountOccurrences(rp.compiled, CitationTag(citation_id))
                after == CountOccurrences(rp.text, CitationTag(citation_id))
            IN IF CitationTag(citation_id) \in TagsOf(rp.missing_citations)
               THEN after \in {before, before + 1}
               ELSE after = before

\* a marker was put into a text that already held another ID's marker
C32_Witness ==
    /\ rp.phase = "returned"
    /\ ~rp.raised
    /\ Contains(rp.compiled, CitationTag("doc-1"))
    /\ ~Contains(rp.compiled, CitationTag("doc-2"))
    /\ Contains(rp.text, CitationTag("doc-1"))
    /\ Contains(rp.text, CitationTag("doc-2"))

\* the feedback items of the compiler evaluation that report lost citations
MissingCitationItems ==
    {"CRITICAL: technical facts or citations altered", "some citations missing"}

\* C33: when the compiler evaluation judges a compiled content that lacks a
\* citation ID of the technical baseline, technical_preservation is below 30
\* and the feedback holds a missing-citation item.
C33_LostCitationsDetected ==
    [][(/\ Leaves("evaluate_compiler")
        /\ GetStr(st.answer).cites \ GetStr(st.compiled_answer).cites # {})
       => /\ st'.compiler_evaluation.technical_preservation < 30
          /\ \E k \in 1..Len(st'.compiler_evaluation.feedback) :
                st'.compiler_evaluation.feedback[k] \in MissingCitationItems]_vars

\* C34: every report of the compiler, narrative and brand evaluators with
\* passed = false has a non-empty feedback list, whatever the criterion
\* scores.
C34_FailedEvaluationHasFeedback ==
    (rp.phase = "evaluated" /\ ~rp.passed) => rp.feedback # <<>>

\* C35: the feedback a rewrite puts into the prompt is the feedback list of
\* the most recent failed evaluation, the dictionary the rewrite returns
\* holds neither revision_feedback nor an evaluation, and every decision of
\* the gate is taken right after an evaluation of the latest answer.
C35_RewriteFreshFeedback ==
    /\ rp.returned_by = "rewrite_content" =>
          /\ rp.prompt_feedback = rp.failed_feedback
          /\ ~rp.returned.revision_feedback.present
          /\ ~rp.returned.channels.evaluation.present
    /\ route \in {"rewrite", "done"} =>
          /\ rp.returned_by = "evaluate_quality"
          /\ rp.judged = runs["generate"]
          /\ st.evaluation.present

\* a second rewrite, after two failed evaluations with different feedback
C35_Witness ==
    /\ rp.returned_by = "rewrite_content"
    /\ st.retry_count = 2
    /\ rp.prompt_feedback = <<"improve">>
    /\ st.evaluation.feedback = <<"improve">>

\* C36: when the enrichment call of agent 4 fails, the run ends with
\* enriched_answer and answer both the compiled content, and the answer
\* delivered is the compiled content; without compiled content agent 4
\* returns the state as it is.
C36_EnrichmentFailureFallsBack ==
    [][/\ Leaves("agent_4_enrich") =>
             IF Truthy(st.compiled_answer)
             THEN "enrichment_failed" \in triggers' =>
                     /\ node' = "END"
                     /\ st'.enriched_answer = st.compiled_answer
                     /\ st'.answer = st.compiled_answer
                     /\ st'.compiled_answer = st.compiled_answer
             ELSE st' = st /\ node' = "END"
       /\ ("enrichment_failed" \in triggers /\ response' # response) =>
             /\ response'.status = "ok"
             /\ response'.answer = st.compiled_answer]_vars

\* the answer of a run whose enrichment call failed has been delivered
C36_Witness ==
    /\ "enrichment_failed" \in triggers
    /\ response.status = "ok"
    /\ Truthy(response.answer)
    /\ response.answer = st.compiled_answer
    /\ st.compiler_retry_count >= 1

C38_TierSearchesConcurrent ==
    (/\ rp.phase \in {"gather", "joined"}
     /\ ResearchTiers > 1
     /\ Len(rp.outcomes) >= 1)
    => Len(rp.searched) = ResearchTiers

====
